---- MODULE Spec2Model ----
(***************************************************************************)
(* A model of regulator-cli: the publish and new-compliance-definition    *)
(* workflows, deploy_from_artifact with its recursive library linking,     *)
(* and the explorer verification (build, submit with retries, poll).       *)
(***************************************************************************)
EXTENDS Integers, Sequences, FiniteSets, TLC

(* ------------------------------------------------------------------ *)
(* Bounds of the model                                                 *)
(* ------------------------------------------------------------------ *)

\* The number of nested deploy_from_artifact calls the model follows.
MaxDepth == 4

\* The number of runs that work in one Foundry project at the same time.
MaxRuns == 2

\* The number of seconds the clock of the receipts' file names runs through.
MaxSeconds == 2

(* ------------------------------------------------------------------ *)
(* Program constants (etherscan.rs)                                    *)
(* ------------------------------------------------------------------ *)

ETHERSCAN_V2_API == "https://api.etherscan.io/v2/api"

\* seconds
POLL_INTERVAL == 5

MAX_POLL_ATTEMPTS == 20

SUBMIT_RETRIES == 3

\* seconds
SUBMIT_RETRY_DELAY == 10

(* ------------------------------------------------------------------ *)
(* Option values: <<>> is None, <<x>> is Some(x)                        *)
(* ------------------------------------------------------------------ *)

None == <<>>

Some(x) == <<x>>

IsSome(o) == Len(o) = 1

Unwrap(o) == o[1]

(* ------------------------------------------------------------------ *)
(* Paths: sequences of components                                      *)
(* ------------------------------------------------------------------ *)

\* Path::parent: None for a path without components.
Parent(p) == IF Len(p) = 0 THEN None ELSE Some(SubSeq(p, 1, Len(p) - 1))

\* Path::file_name: the last component, None when there is none.
FileName(p) == IF Len(p) = 0 THEN None ELSE Some(p[Len(p)])

\* Path::join
Join(p, c) == Append(p, c)

RECURSIVE PathStr(_)
\* Path::display: the components separated by "/".
PathStr(p) ==
    IF Len(p) = 0 THEN ""
    ELSE IF Len(p) = 1 THEN p[1]
    ELSE p[1] \o "/" \o PathStr(Tail(p))

(* ------------------------------------------------------------------ *)
(* Bytecode text, placeholders and addresses                            *)
(* ------------------------------------------------------------------ *)

\* hex::encode(keccak256(name)): the 64 lowercase hex characters of the
\* digest, for the fully-qualified names the model uses.
HashHex(fully_qualified_name) ==
    CASE fully_qualified_name = "src/Verifier.sol:ZKTranscriptLib"
            -> "5d9570e42d70145f8f7a9033d82e58ea5dcf0acab43ae4c4ae9b5820d891bd1f"
      [] fully_qualified_name = "src/Lib.sol:MathLib"
            -> "4d9ffe54f4d828e96d8353c1f28f0bda8cda35ae3223fdb811931ef835f6bafb"
      [] fully_qualified_name = "src/A.sol:LibA"
            -> "d760b8e5d8df794c87112d9686661d1b90c309a3babc6c7f3d4e271a6daaaa70"
      [] fully_qualified_name = "src/B.sol:LibB"
            -> "00ddfa5900643aaaf7a354d9b8a8def7d2922de8315777279a6b5cba23bc4ad9"
      [] fully_qualified_name = ""
            -> "c5d2460186f7233c927e7db2dcc703c0e500b653ca82273b7bfad8045d85a470"

\* Keccak34 that keeps 16 bytes of the digest instead of 17.
Keccak34_Short(fully_qualified_name) ==
    SubSeq(HashHex(fully_qualified_name), 1, 32)

\* &hash_hex[..34]
Keccak34(fully_qualified_name) ==
    SubSeq(HashHex(fully_qualified_name), 1, 34)

\* "__$" + 34 hex characters + "$__"
library_placeholder(fully_qualified_name) ==
    "__$" \o Keccak34(fully_qualified_name) \o "$__"

\* An address is the number of the creating transaction; hex::encode gives
\* its 40 lowercase hex characters without a 0x prefix.
AddrHex(a) == "000000000000000000000000000000000000000" \o ToString(a)

\* The runs of hex digits the artifacts' bytecode is written with.
HexChunks == {"6080", "5b00", "f3", "608", "00"}

Addresses == 1..9

\* Whether a piece of bytecode text consists of hex digits only.
IsHexText(t) == t \in HexChunks \/ \E a \in Addresses : t = AddrHex(a)

RECURSIVE TextLen(_)
\* The number of characters of a bytecode string given by its pieces.
TextLen(text) == IF text = <<>> THEN 0 ELSE Len(Head(text)) + TextLen(Tail(text))

\* Replace that stops after the first occurrence.
Replace_FirstOnly(text, from, to) ==
    [i \in 1..Len(text) |->
        IF text[i] = from /\ \A j \in 1..(i - 1) : text[j] # from THEN to
        ELSE text[i]]

\* str::replace on a bytecode string: every occurrence of from becomes to.
Replace(text, from, to) ==
    [i \in 1..Len(text) |-> IF text[i] = from THEN to ELSE text[i]]

\* str::strip_prefix("0x").unwrap_or(whole)
StripPrefix0x(text) ==
    IF text # <<>> /\ Head(text) = "0x" THEN Tail(text) ELSE text

\* hex::decode: None on an odd length or a non-hex character, else the bytes
\* (each run of hex digits decoded to the run of bytes it writes).
HexDecode(text) ==
    IF TextLen(text) % 2 # 0 \/ \E i \in 1..Len(text) : ~IsHexText(text[i])
    THEN None
    ELSE Some([i \in 1..Len(text) |-> [bytes |-> text[i]]])

(* ------------------------------------------------------------------ *)
(* Build artifacts and the project files of a run                       *)
(* ------------------------------------------------------------------ *)

\* The Foundry project (--contract-dir, main.rs: default_value).
contract_dir == <<"verifier-base-contract">>

\* forge::artifact_path: <contract_dir>/out/<file>/<Name>.json
artifact_path(dir, sol_file_name, contract_name) ==
    dir \o <<"out", sol_file_name, contract_name \o ".json">>

HonkVerifierArtifact == artifact_path(contract_dir, "Verifier.sol", "HonkVerifier")

ComplianceDefinitionArtifact ==
    artifact_path(contract_dir, "ComplianceDefinition.sol", "ComplianceDefinition")

LibArtifact(sol_file_name, lib_name) ==
    artifact_path(contract_dir, sol_file_name, lib_name)

\* Compiler versions as character sequences: "0.8" and "v0.8".
VersionPlain == <<"0", ".", "8">>

VersionMarked == <<"v", "0", ".", "8">>

\* Metadata settings of an artifact: key -> value.
SettingsWithTarget ==
    [k \in {"compilationTarget", "optimizer", "evmVersion"} |->
        CASE k = "compilationTarget" -> "src/Verifier.sol:HonkVerifier"
          [] k = "optimizer" -> "enabled,runs=200"
          [] OTHER -> "cancun"]

SettingsWithSelection ==
    [k \in {"optimizer", "outputSelection"} |->
        IF k = "optimizer" THEN "enabled,runs=200" ELSE "metadata-only"]

\* The embedded metadata of an artifact. form: how the artifact carries it.
Metadata(form, version, settings, sources) ==
    [form |-> form, version |-> version, settings |-> settings,
     sources |-> sources]

MetaOf(sources) ==
    Metadata("rawMetadata", Some(VersionPlain), Some(SettingsWithTarget),
             Some(sources))

\* A link reference entry: a source file and its libraries (None: the value
\* is not an object).
LinkRef(sol_file, libs) == [sol_file |-> sol_file, libs |-> libs]

\* A build artifact document.
Artifact(object, linkReferences, metadata) ==
    [json |-> TRUE, object |-> object, linkReferences |-> linkReferences,
     metadata |-> metadata]

NotJson ==
    [json |-> FALSE, object |-> None, linkReferences |-> None,
     metadata |-> Metadata("absent", None, None, None)]

SrcVerifier == <<"src", "Verifier.sol">>

SrcCD == <<"src", "ComplianceDefinition.sol">>

SrcA == <<"src", "A.sol">>

SrcB == <<"src", "B.sol">>

PhZK == library_placeholder("src/Verifier.sol:ZKTranscriptLib")

PhA == library_placeholder("src/A.sol:LibA")

PhB == library_placeholder("src/B.sol:LibB")

CDArtifact ==
    Artifact(Some(<<"0x", "6080", "f3">>), Some(<<>>), MetaOf(<<SrcCD>>))

LeafLib == Artifact(Some(<<"0x", "5b00">>), None, MetaOf(<<SrcVerifier>>))

\* A world: the artifact files under <contract_dir>/out and the source files
\* readable under the Foundry project (src/Verifier.sol apart, which the run
\* copies in).
World(name, files, sources) == [name |-> name, files |-> files, sources |-> sources]

WorldPlain ==
    World("plain",
          (HonkVerifierArtifact :>
              Artifact(Some(<<"0x", "6080", "5b00">>),
                       Some(<<LinkRef(SrcA, None)>>),
                       Metadata("metadata_object", Some(VersionMarked),
                                Some(SettingsWithSelection), Some(<<SrcVerifier>>))))
          @@ (ComplianceDefinitionArtifact :> CDArtifact),
          {SrcCD})

WorldOneLib ==
    World("one_lib",
          (HonkVerifierArtifact :>
              Artifact(Some(<<"0x", "6080", PhZK, "5b00", PhZK>>),
                       Some(<<LinkRef(SrcVerifier, Some(<<"ZKTranscriptLib">>))>>),
                       MetaOf(<<SrcVerifier>>)))
          @@ (LibArtifact("Verifier.sol", "ZKTranscriptLib") :> LeafLib)
          @@ (ComplianceDefinitionArtifact :> CDArtifact),
          {SrcCD})

WorldDiamond ==
    World("diamond",
          (HonkVerifierArtifact :>
              Artifact(Some(<<"0x", PhA, "6080", PhB>>),
                       Some(<<LinkRef(SrcA, Some(<<"LibA">>)),
                              LinkRef(SrcB, Some(<<"LibB">>))>>),
                       MetaOf(<<SrcA, SrcB, SrcVerifier>>)))
          @@ (LibArtifact("A.sol", "LibA") :>
              Artifact(Some(<<"6080", PhB>>),
                       Some(<<LinkRef(SrcB, Some(<<"LibB">>))>>),
                       MetaOf(<<SrcA, SrcB>>)))
          @@ (LibArtifact("B.sol", "LibB") :> LeafLib)
          @@ (ComplianceDefinitionArtifact :> CDArtifact),
          {SrcCD, SrcA, SrcB})

WorldChain ==
    World("chain",
          (HonkVerifierArtifact :>
              Artifact(Some(<<PhA, "f3">>),
                       Some(<<LinkRef(SrcA, Some(<<"LibA">>))>>),
                       Metadata("metadata_string", Some(VersionPlain), None,
                                Some(<<SrcA, SrcB, SrcVerifier>>))))
          @@ (LibArtifact("A.sol", "LibA") :>
              Artifact(Some(<<"6080", PhB>>),
                       Some(<<LinkRef(SrcB, Some(<<"LibB">>))>>),
                       MetaOf(<<SrcA, SrcB>>)))
          @@ (LibArtifact("B.sol", "LibB") :> LeafLib)
          @@ (ComplianceDefinitionArtifact :> CDArtifact),
          {SrcCD, SrcA, SrcB})

WorldCycle ==
    World("cycle",
          (HonkVerifierArtifact :>
              Artifact(Some(<<"0x", PhA, "6080">>),
                       Some(<<LinkRef(SrcA, Some(<<"LibA">>))>>),
                       MetaOf(<<SrcA, SrcB, SrcVerifier>>)))
          @@ (LibArtifact("A.sol", "LibA") :>
              Artifact(Some(<<"6080", PhB>>),
                       Some(<<LinkRef(SrcB, Some(<<"LibB">>))>>),
                       MetaOf(<<SrcA, SrcB>>)))
          @@ (LibArtifact("B.sol", "LibB") :>
              Artifact(Some(<<"5b00", PhA>>),
                       Some(<<LinkRef(SrcA, Some(<<"LibA">>))>>),
                       MetaOf(<<SrcA, SrcB>>)))
          @@ (ComplianceDefinitionArtifact :> CDArtifact),
          {SrcCD, SrcA, SrcB})

WorldMissingLib ==
    World("missing_lib",
          (HonkVerifierArtifact :>
              Artifact(Some(<<"0x", PhA, "6080">>),
                       Some(<<LinkRef(SrcA, Some(<<"LibA">>))>>),
                       MetaOf(<<SrcA, SrcVerifier>>)))
          @@ (ComplianceDefinitionArtifact :> CDArtifact),
          {SrcCD, SrcA})

WorldBadHex ==
    World("bad_hex",
          (HonkVerifierArtifact :>
              Artifact(Some(<<"0x", PhA, "608">>),
                       Some(<<LinkRef(SrcA, Some(<<"LibA">>))>>),
                       MetaOf(<<SrcA, SrcVerifier>>)))
          @@ (LibArtifact("A.sol", "LibA") :> LeafLib)
          @@ (ComplianceDefinitionArtifact :>
              Artifact(Some(<<"0x", "6080", "zz">>), None, MetaOf(<<SrcCD>>))),
          {SrcCD, SrcA})

WorldUnlistedLib ==
    World("unlisted_lib",
          (HonkVerifierArtifact :>
              Artifact(Some(<<"0x", PhA, "6080", PhB>>),
                       Some(<<LinkRef(SrcA, Some(<<"LibA">>)),
                              LinkRef(SrcB, None)>>),
                       MetaOf(<<SrcA, SrcVerifier>>)))
          @@ (LibArtifact("A.sol", "LibA") :> LeafLib)
          @@ (ComplianceDefinitionArtifact :> CDArtifact),
          {SrcCD, SrcA})

WorldNoMetadata ==
    World("no_metadata",
          (HonkVerifierArtifact :>
              Artifact(Some(<<"6080", "5b00">>), None,
                       Metadata("absent", None, None, None)))
          @@ (ComplianceDefinitionArtifact :>
              Artifact(Some(<<"0x", "6080", "f3">>), None,
                       Metadata("rawMetadata", None, None, Some(<<SrcCD>>)))),
          {SrcCD})

WorldMissingSource ==
    World("missing_source",
          (HonkVerifierArtifact :>
              Artifact(Some(<<"6080", "5b00">>), None,
                       MetaOf(<<SrcA, SrcVerifier>>)))
          @@ (ComplianceDefinitionArtifact :>
              Artifact(Some(<<"0x", "6080", "f3">>), None,
                       Metadata("rawMetadata_invalid", None, None, None))),
          {SrcCD})

WorldBrokenArtifact ==
    World("broken_artifact",
          (HonkVerifierArtifact :> NotJson)
          @@ (ComplianceDefinitionArtifact :>
              Artifact(None, None, MetaOf(<<SrcCD>>))),
          {SrcCD})

Worlds ==
    {WorldPlain, WorldOneLib, WorldDiamond, WorldChain, WorldCycle,
     WorldMissingLib, WorldBadHex, WorldUnlistedLib, WorldNoMetadata,
     WorldMissingSource, WorldBrokenArtifact}

WorldNames == {w.name : w \in Worlds}

WorldNamed(name) ==
    CASE name = "plain" -> WorldPlain
      [] name = "one_lib" -> WorldOneLib
      [] name = "diamond" -> WorldDiamond
      [] name = "chain" -> WorldChain
      [] name = "cycle" -> WorldCycle
      [] name = "missing_lib" -> WorldMissingLib
      [] name = "bad_hex" -> WorldBadHex
      [] name = "unlisted_lib" -> WorldUnlistedLib
      [] name = "no_metadata" -> WorldNoMetadata
      [] name = "missing_source" -> WorldMissingSource
      [] OTHER -> WorldBrokenArtifact

(* ------------------------------------------------------------------ *)
(* State                                                                *)
(* ------------------------------------------------------------------ *)

VARIABLES
    world,        \* the name of the world the run is in: its artifact and
                  \* source files
    cmd,          \* "publish" or "new-compliance-definition"
    verify,       \* VerifyArgs: etherscan_api_key, verifier_url
    project,      \* what the Noir project path of the command line is
    step,         \* the workflow's position: an index into Steps(cmd)
    run,          \* the workflow's local values
    exit,         \* how the command ended, once it did
    verifier_sol, \* whether <contract_dir>/src/Verifier.sol exists
    receipts,     \* the receipt files written
    stack,        \* the deploy_from_artifact calls in progress, outermost first
    ret,          \* the value the last finished deploy_from_artifact returned
    chain,        \* the transactions the node accepted, in order, each with
                  \* the artifact it deploys and the artifact of the
                  \* outermost deploy_from_artifact call it was sent under
    vc,           \* the verify_contract call in progress: its locals
    vret,         \* the value the last finished verify_contract returned
    log,          \* that call's explorer requests and sleeps, in order
    reads,        \* the files that call read or tried to read, in order
    procs,        \* concurrent runs of one Foundry project: each run's
                  \* position and what it has read
    writers,      \* runs that write their receipt into one receipts
                  \* directory: each run's position in write_to_dir
    clock,        \* the second Utc::now() is in
    fs,           \* the paths init is given: what is at each name
    init,         \* the run of init in progress or just ended
    inited,       \* the names an init has succeeded for
    shared        \* the files those runs share: whose Verifier.sol is at
                  \* <contract_dir>/src/Verifier.sol, and whose is compiled
                  \* in <contract_dir>/out/Verifier.sol/HonkVerifier.json

vars ==
    <<world, cmd, verify, project, step, run, exit, verifier_sol, receipts,
      stack, ret,
      chain, vc, vret, log, reads, procs, writers, clock, fs, init, inited, shared>>

deployVars == <<stack, ret, chain>>

verifyVars == <<vc, vret, log, reads>>

workflowVars == <<step, run, exit, verifier_sol, receipts>>

receiptVars == <<writers, clock>>

initVars == <<fs, init, inited>>

inputVars == <<world, cmd, verify, project, procs, shared, receiptVars, initVars>>

(* ------------------------------------------------------------------ *)
(* eth.rs: deploy_from_artifact                                         *)
(* ------------------------------------------------------------------ *)

\* Result<DeployOutput>
DeployOk(deployed_to, transaction_hash) ==
    [ok |-> TRUE, err |-> "", deployed_to |-> deployed_to,
     transaction_hash |-> transaction_hash]

DeployErr(msg) ==
    [ok |-> FALSE, err |-> msg, deployed_to |-> 0, transaction_hash |-> 0]

\* The address the chain assigns to the contract created by transaction n,
\* and that transaction's hash.
ContractAddress(n) == n

TxHash(n) == 100 + n

\* A call of deploy_from_artifact: its arguments and locals.
Frame(path, constructor_args) ==
    [artifact_path |-> path, constructor_args |-> constructor_args,
     pc |-> "read", bytecode_hex |-> <<>>, todo |-> <<>>, tx |-> 0]

RECURSIVE LibsOf(_, _)
\* The (sol_file, lib_name) pairs the two nested loops visit, in order;
\* an entry whose value is not an object is skipped.
LibsOf(entries, i) ==
    IF i > Len(entries) THEN <<>>
    ELSE (IF IsSome(entries[i].libs)
          THEN [j \in 1..Len(Unwrap(entries[i].libs)) |->
                   [sol_file |-> entries[i].sol_file,
                    lib_name |-> Unwrap(entries[i].libs)[j]]]
          ELSE <<>>)
         \o LibsOf(entries, i + 1)

\* The artifact of a referenced library: the artifact's output directory
\* joined with the source file's name and <lib_name>.json.
lib_artifact_path(artifact_dir, sol_file, lib_name) ==
    LET sol_filename ==
            IF IsSome(FileName(sol_file)) THEN Unwrap(FileName(sol_file))
            ELSE PathStr(sol_file)
    IN  Join(Join(artifact_dir, sol_filename), lib_name \o ".json")

\* parent().and_then(|p| p.parent())
artifact_dir_of(path) ==
    IF IsSome(Parent(path)) THEN Parent(Unwrap(Parent(path))) ELSE None

Top == stack[Len(stack)]

SetTop(f) == [stack EXCEPT ![Len(stack)] = f]

\* The innermost call returns r to its caller.
Return(r) ==
    /\ stack' = SubSeq(stack, 1, Len(stack) - 1)
    /\ ret' = Some(r)

\* DeployRead that drops the 0x prefix as it takes bytecode.object.
DeployRead_StripsEarly ==
    /\ stack # <<>>
    /\ Top.pc = "read"
    /\ LET path == Top.artifact_path
           files == WorldNamed(world).files
       IN
       IF path \notin DOMAIN files
       THEN Return(DeployErr("failed to read artifact"))
       ELSE LET artifact == files[path] IN
            IF ~artifact.json
            THEN Return(DeployErr("failed to parse artifact JSON"))
            ELSE IF ~IsSome(artifact.object)
            THEN Return(DeployErr("missing bytecode.object in artifact"))
            ELSE IF IsSome(artifact.linkReferences)
                    /\ ~IsSome(artifact_dir_of(path))
            THEN Return(DeployErr("cannot determine artifact output directory"))
            ELSE /\ stack' = SetTop([Top EXCEPT
                        !.pc = "link",
                        !.bytecode_hex = StripPrefix0x(Unwrap(artifact.object)),
                        !.todo = IF IsSome(artifact.linkReferences)
                                 THEN LibsOf(Unwrap(artifact.linkReferences), 1)
                                 ELSE <<>>])
                 /\ ret' = None
    /\ UNCHANGED <<chain, inputVars, workflowVars, verifyVars>>

\* DeployRead that decodes bytecode.object as it takes it, before any
\* library is linked.
DeployRead_DecodesFirst ==
    /\ stack # <<>>
    /\ Top.pc = "read"
    /\ LET path == Top.artifact_path
           files == WorldNamed(world).files
       IN
       IF path \notin DOMAIN files
       THEN Return(DeployErr("failed to read artifact"))
       ELSE LET artifact == files[path] IN
            IF ~artifact.json
            THEN Return(DeployErr("failed to parse artifact JSON"))
            ELSE IF ~IsSome(artifact.object)
            THEN Return(DeployErr("missing bytecode.object in artifact"))
            ELSE IF IsSome(artifact.linkReferences)
                    /\ ~IsSome(artifact_dir_of(path))
            THEN Return(DeployErr("cannot determine artifact output directory"))
            ELSE IF ~IsSome(HexDecode(StripPrefix0x(Unwrap(artifact.object))))
            THEN Return(DeployErr("invalid hex in bytecode.object of artifact"))
            ELSE /\ stack' = SetTop([Top EXCEPT
                        !.pc = "link",
                        !.bytecode_hex = Unwrap(artifact.object),
                        !.todo = IF IsSome(artifact.linkReferences)
                                 THEN LibsOf(Unwrap(artifact.linkReferences), 1)
                                 ELSE <<>>])
                 /\ ret' = None
    /\ UNCHANGED <<chain, inputVars, workflowVars, verifyVars>>

\* Lines 60-84: read and parse the artifact, take bytecode.object and the
\* link references.
DeployRead ==
    /\ stack # <<>>
    /\ Top.pc = "read"
    /\ LET path == Top.artifact_path
           files == WorldNamed(world).files
       IN
       IF path \notin DOMAIN files
       THEN Return(DeployErr("failed to read artifact"))
       ELSE LET artifact == files[path] IN
            IF ~artifact.json
            THEN Return(DeployErr("failed to parse artifact JSON"))
            ELSE IF ~IsSome(artifact.object)
            THEN Return(DeployErr("missing bytecode.object in artifact"))
            ELSE IF IsSome(artifact.linkReferences)
                    /\ ~IsSome(artifact_dir_of(path))
            THEN Return(DeployErr("cannot determine artifact output directory"))
            ELSE /\ stack' = SetTop([Top EXCEPT
                        !.pc = "link",
                        !.bytecode_hex = Unwrap(artifact.object),
                        !.todo = IF IsSome(artifact.linkReferences)
                                 THEN LibsOf(Unwrap(artifact.linkReferences), 1)
                                 ELSE <<>>])
                 /\ ret' = None
    /\ UNCHANGED <<chain, inputVars, workflowVars, verifyVars>>

\* Lines 90-106: the next referenced library is deployed by a nested call.
DeployLibrary ==
    /\ stack # <<>>
    /\ Top.pc = "link"
    /\ Top.todo # <<>>
    /\ Len(stack) < MaxDepth
    /\ LET lib == Head(Top.todo)
           dir == Unwrap(artifact_dir_of(Top.artifact_path))
       IN  stack' = Append(SetTop([Top EXCEPT !.pc = "await"]),
                           Frame(lib_artifact_path(dir, lib.sol_file, lib.lib_name),
                                 None))
    /\ ret' = None
    /\ UNCHANGED <<chain, inputVars, workflowVars, verifyVars>>

\* DeployLinked that passes over a library whose deployment failed.
DeployLinked_SkipsFailed ==
    /\ stack # <<>>
    /\ Top.pc = "await"
    /\ IsSome(ret)
    /\ LET lib_deploy == Unwrap(ret)
           lib == Head(Top.todo)
       IN  IF ~lib_deploy.ok
           THEN /\ stack' = SetTop([Top EXCEPT !.pc = "link", !.todo = Tail(@)])
                /\ ret' = None
           ELSE LET fq_name == PathStr(lib.sol_file) \o ":" \o lib.lib_name
                    placeholder == library_placeholder(fq_name)
                    addr_hex == AddrHex(lib_deploy.deployed_to)
                IN  /\ stack' = SetTop([Top EXCEPT
                            !.pc = "link",
                            !.bytecode_hex = Replace(@, placeholder, addr_hex),
                            !.todo = Tail(@)])
                    /\ ret' = None
    /\ UNCHANGED <<chain, inputVars, workflowVars, verifyVars>>

\* Lines 106-112: the nested call returned; its error is this call's error,
\* its address replaces the library's placeholder.
DeployLinked ==
    /\ stack # <<>>
    /\ Top.pc = "await"
    /\ IsSome(ret)
    /\ LET lib_deploy == Unwrap(ret)
           lib == Head(Top.todo)
       IN  IF ~lib_deploy.ok
           THEN Return(lib_deploy)
           ELSE LET fq_name == PathStr(lib.sol_file) \o ":" \o lib.lib_name
                    placeholder == library_placeholder(fq_name)
                    addr_hex == AddrHex(lib_deploy.deployed_to)
                IN  /\ stack' = SetTop([Top EXCEPT
                            !.pc = "link",
                            !.bytecode_hex = Replace(@, placeholder, addr_hex),
                            !.todo = Tail(@)])
                    /\ ret' = None
    /\ UNCHANGED <<chain, inputVars, workflowVars, verifyVars>>

\* DeployCode with the constructor arguments put before the bytecode.
DeployCode_ArgsFirst(bytecode, constructor_args) ==
    IF IsSome(constructor_args) THEN Unwrap(constructor_args) \o bytecode
    ELSE bytecode

\* The bytes a call hands to the chain: the decoded bytecode, then the
\* constructor arguments.
DeployCode(bytecode, constructor_args) ==
    IF IsSome(constructor_args) THEN bytecode \o Unwrap(constructor_args)
    ELSE bytecode

\* DeploySend that returns the address as soon as the transaction is
\* broadcast, without waiting for its receipt.
DeploySend_NoReceiptWait ==
    /\ stack # <<>>
    /\ Top.pc = "link"
    /\ Top.todo = <<>>
    /\ LET raw == StripPrefix0x(Top.bytecode_hex)
           bytecode == HexDecode(raw)
       IN  IF ~IsSome(bytecode)
           THEN /\ Return(DeployErr("invalid hex in bytecode.object of artifact"))
                /\ chain' = chain
           ELSE \E accepted \in BOOLEAN :
                   IF ~accepted
                   THEN /\ Return(DeployErr("failed to broadcast contract deployment"))
                        /\ chain' = chain
                   ELSE /\ chain' = Append(chain,
                               [kind |-> "create",
                                root |-> stack[1].artifact_path,
                                artifact |-> Top.artifact_path,
                                data |-> DeployCode(Unwrap(bytecode),
                                                    Top.constructor_args),
                                status |-> "pending"])
                        /\ Return(DeployOk(ContractAddress(Len(chain) + 1),
                                           TxHash(Len(chain) + 1)))
    /\ UNCHANGED <<inputVars, workflowVars, verifyVars>>

\* Lines 118-138: decode the linked bytecode, append the constructor
\* arguments, broadcast the creation transaction.
DeploySend ==
    /\ stack # <<>>
    /\ Top.pc = "link"
    /\ Top.todo = <<>>
    /\ LET raw == StripPrefix0x(Top.bytecode_hex)
           bytecode == HexDecode(raw)
       IN  IF ~IsSome(bytecode)
           THEN /\ Return(DeployErr("invalid hex in bytecode.object of artifact"))
                /\ chain' = chain
           ELSE \E accepted \in BOOLEAN :
                   IF ~accepted
                   THEN /\ Return(DeployErr("failed to broadcast contract deployment"))
                        /\ chain' = chain
                   ELSE /\ chain' = Append(chain,
                               [kind |-> "create",
                                root |-> stack[1].artifact_path,
                                artifact |-> Top.artifact_path,
                                data |-> DeployCode(Unwrap(bytecode),
                                                    Top.constructor_args),
                                status |-> "pending"])
                        /\ stack' = SetTop([Top EXCEPT !.pc = "receipt",
                                                       !.tx = Len(chain) + 1])
                        /\ ret' = None
    /\ UNCHANGED <<inputVars, workflowVars, verifyVars>>

\* DeployReceipt that goes on with the expected address when the receipt
\* could not be obtained.
DeployReceipt_IgnoresReceiptError ==
    /\ stack # <<>>
    /\ Top.pc = "receipt"
    /\ \E receipt \in {"error", "no_address", "address"} :
          /\ chain' = [chain EXCEPT ![Top.tx].status =
                          CASE receipt = "error" -> "unknown"
                            [] receipt = "no_address" -> "reverted"
                            [] OTHER -> "confirmed"]
          /\ Return(CASE receipt = "no_address" ->
                             DeployErr("no contract address in deployment receipt")
                      [] OTHER ->
                             DeployOk(ContractAddress(Top.tx), TxHash(Top.tx)))
    /\ UNCHANGED <<inputVars, workflowVars, verifyVars>>

\* DeployReceipt that takes the zero address when the receipt has none.
DeployReceipt_DefaultAddress ==
    /\ stack # <<>>
    /\ Top.pc = "receipt"
    /\ \E receipt \in {"error", "no_address", "address"} :
          /\ chain' = [chain EXCEPT ![Top.tx].status =
                          CASE receipt = "error" -> "unknown"
                            [] receipt = "no_address" -> "reverted"
                            [] OTHER -> "confirmed"]
          /\ Return(CASE receipt = "error" ->
                             DeployErr("contract deployment transaction failed")
                      [] receipt = "no_address" ->
                             DeployOk(0, TxHash(Top.tx))
                      [] OTHER ->
                             DeployOk(ContractAddress(Top.tx), TxHash(Top.tx)))
    /\ UNCHANGED <<inputVars, workflowVars, verifyVars>>

\* Lines 140-152: wait for the receipt; without a contract address in it the
\* call fails, else it returns the address and the transaction's hash.
DeployReceipt ==
    /\ stack # <<>>
    /\ Top.pc = "receipt"
    /\ \E receipt \in {"error", "no_address", "address"} :
          /\ chain' = [chain EXCEPT ![Top.tx].status =
                          CASE receipt = "error" -> "unknown"
                            [] receipt = "no_address" -> "reverted"
                            [] OTHER -> "confirmed"]
          /\ Return(CASE receipt = "error" ->
                             DeployErr("contract deployment transaction failed")
                      [] receipt = "no_address" ->
                             DeployErr("no contract address in deployment receipt")
                      [] OTHER ->
                             DeployOk(ContractAddress(Top.tx), TxHash(Top.tx)))
    /\ UNCHANGED <<inputVars, workflowVars, verifyVars>>

(* ------------------------------------------------------------------ *)
(* etherscan.rs: outcomes, responses                                    *)
(* ------------------------------------------------------------------ *)

\* enum VerificationOutcome
Outcome(kind, reason) == [kind |-> kind, reason |-> reason]

Verified == Outcome("Verified", "")

AlreadyVerified == Outcome("AlreadyVerified", "")

Failed(reason) == Outcome("Failed", reason)

Skipped == Outcome("Skipped", "")

NoOutcome == Outcome("none", "")

\* impl Display for VerificationOutcome
Display(outcome) ==
    CASE outcome.kind = "Verified" -> "verified"
      [] outcome.kind = "AlreadyVerified" -> "already_verified"
      [] outcome.kind = "Failed" -> "failed: " \o outcome.reason
      [] OTHER -> "skipped"

\* Result<VerificationOutcome>
VOk(outcome) == [ok |-> TRUE, outcome |-> outcome, err |-> ""]

VErr(msg) == [ok |-> FALSE, outcome |-> NoOutcome, err |-> msg]

\* What an HTTP exchange with the explorer gives: no response at all, a body
\* that is not an EtherscanResponse, or {status, result}. For the first two
\* result holds the client's error text.
Response(kind, status, result) ==
    [kind |-> kind, status |-> status, result |-> result]

\* is_ok that takes every answered status flag for success.
is_ok_AnyStatus(resp) == resp.status # ""

\* EtherscanResponse::is_ok
is_ok(resp) == resp.status = "1"

SubmitResponses ==
    {Response("transport_error", "", "connection refused"),
     Response("bad_body", "", "expected value at line 1 column 1"),
     Response("json", "0", "Invalid API Key"),
     Response("json", "1", "guid-a"),
     Response("json", "1", "guid-b")}

PollResponses ==
    {Response("transport_error", "", "connection reset"),
     Response("bad_body", "", "expected value at line 1 column 1"),
     Response("json", "0", "Pending in queue"),
     Response("json", "1", "Pass - Verified"),
     Response("json", "0", "Already Verified"),
     Response("json", "0", "Fail - Unable to verify"),
     Response("json", "1", "Pending in Queue")}

(* ------------------------------------------------------------------ *)
(* etherscan.rs: build_standard_json_input                              *)
(* ------------------------------------------------------------------ *)

BuildOk(standard_json, compiler_version) ==
    [ok |-> TRUE, err |-> "", standard_json |-> standard_json,
     compiler_version |-> compiler_version]

NoDocument == [language |-> "", sources |-> <<>>, settings |-> <<>>]

BuildErr(msg) ==
    [ok |-> FALSE, err |-> msg, standard_json |-> NoDocument,
     compiler_version |-> <<>>]

\* CompilerVersion that prepends the marker without looking.
CompilerVersion_AlwaysPrefixed(version) == <<"v">> \o version

\* Lines 109-113: the version with a leading 'v'.
CompilerVersion(version) ==
    IF version # <<>> /\ Head(version) = "v" THEN version ELSE <<"v">> \o version

OutputSelectionAll == "*:*:abi,evm.bytecode,evm.deployedBytecode"

\* Lines 116-134: the metadata settings without compilationTarget; an
\* outputSelection is inserted when the settings carry none.
StandardSettings(meta_settings) ==
    LET obj == IF IsSome(meta_settings) THEN Unwrap(meta_settings) ELSE <<>>
        kept == DOMAIN obj \ {"compilationTarget"}
    IN  [k \in kept \cup {"outputSelection"} |->
            IF k \in kept THEN obj[k] ELSE OutputSelectionAll]

\* Readable that takes a missing source file for an empty one.
Readable_MissingIsEmpty(w, vsol, path) == TRUE

\* Whether a source file can be read under the Foundry project.
Readable(w, vsol, path) ==
    path \in w.sources \/ (path = SrcVerifier /\ vsol)

RECURSIVE SourceReads(_, _, _)
\* Lines 143-146: the source files are read in the order of the keys, up to
\* the first that cannot be read.
SourceReads(w, vsol, source_keys) ==
    IF source_keys = <<>> THEN <<>>
    ELSE <<contract_dir \o Head(source_keys)>>
         \o (IF Readable(w, vsol, Head(source_keys))
             THEN SourceReads(w, vsol, Tail(source_keys))
             ELSE <<>>)

\* Lines 85-160.
build_standard_json_input(w, vsol, path) ==
    IF path \notin DOMAIN w.files THEN BuildErr("failed to read artifact")
    ELSE LET artifact == w.files[path]
             metadata == artifact.metadata
         IN
         IF ~artifact.json THEN BuildErr("expected value")
         ELSE IF metadata.form = "rawMetadata_notstring"
         THEN BuildErr("rawMetadata is not a string")
         ELSE IF metadata.form \in {"rawMetadata_invalid", "metadata_string_invalid"}
         THEN BuildErr("expected value")
         ELSE IF metadata.form = "absent"
         THEN BuildErr("no metadata found in artifact")
         ELSE IF ~IsSome(metadata.version)
         THEN BuildErr("no compiler.version in artifact metadata")
         ELSE IF ~IsSome(metadata.sources)
         THEN BuildErr("no sources in artifact metadata")
         ELSE LET source_keys == Unwrap(metadata.sources)
                  paths == {source_keys[i] : i \in 1..Len(source_keys)}
              IN
              IF \E q \in paths : ~Readable(w, vsol, q)
              THEN BuildErr("failed to read source")
              ELSE BuildOk([language |-> "Solidity",
                            sources |-> [q \in paths |-> [content |-> PathStr(q)]],
                            settings |-> StandardSettings(metadata.settings)],
                           CompilerVersion(Unwrap(metadata.version)))

\* The files a call of build_standard_json_input opens: the artifact (line
\* 86) and, when the metadata names its sources, the source files.
FilesRead(w, vsol, path) ==
    LET built == build_standard_json_input(w, vsol, path) IN
    IF built.ok \/ built.err = "failed to read source"
    THEN <<path>> \o SourceReads(w, vsol, Unwrap(w.files[path].metadata.sources))
    ELSE <<path>>

(* ------------------------------------------------------------------ *)
(* etherscan.rs: submit_verification, poll_status, verify_contract      *)
(* ------------------------------------------------------------------ *)

\* The locals of a verify_contract call; pc "idle": no call in progress.
IdleCall ==
    [pc |-> "idle", artifact_path |-> <<>>, chain_id |-> 0,
     contract_address |-> 0, contract_name |-> "", constructor_args |-> "",
     api_key |-> "", base_url |-> "", standard_json |-> NoDocument,
     compiler_version |-> <<>>, attempt |-> 0, guid |-> "", poll_attempt |-> 0]

\* NonEmpty without the filter: an empty string counts as a value.
NonEmpty_Unfiltered(o) == IF IsSome(o) THEN o ELSE None

\* Option<String>.as_deref().filter(|s| !s.is_empty())
NonEmpty(o) == IF IsSome(o) /\ Unwrap(o) # "" THEN o ELSE None

\* BaseUrl that takes an empty verifier URL as it is.
BaseUrl_KeepsEmpty(verifier_url) ==
    IF IsSome(verifier_url) THEN Unwrap(verifier_url)
    ELSE ETHERSCAN_V2_API

\* Lines 276-280.
BaseUrl(verifier_url) ==
    IF IsSome(NonEmpty(verifier_url)) THEN Unwrap(verifier_url)
    ELSE ETHERSCAN_V2_API

\* Lines 264-289: without an API key the call returns Skipped; else the
\* standard JSON input is built, and its failure is the call's error.
VerifyEnter ==
    /\ vc.pc = "entry"
    /\ LET key == NonEmpty(verify.etherscan_api_key) IN
       IF ~IsSome(key)
       THEN /\ vret' = Some(VOk(Skipped))
            /\ vc' = IdleCall
            /\ reads' = reads
       ELSE LET built == build_standard_json_input(WorldNamed(world), verifier_sol,
                                                   vc.artifact_path)
            IN  /\ reads' = FilesRead(WorldNamed(world), verifier_sol,
                                       vc.artifact_path)
                /\ IF ~built.ok
                   THEN /\ vret' = Some(VErr(
                               "failed to build standard JSON input for verification: "
                               \o built.err))
                        /\ vc' = IdleCall
                   ELSE /\ vret' = None
                        /\ vc' = [vc EXCEPT
                               !.pc = "submit",
                               !.api_key = Unwrap(key),
                               !.base_url = BaseUrl(verify.verifier_url),
                               !.standard_json = built.standard_json,
                               !.compiler_version = built.compiler_version,
                               !.attempt = 1]
    /\ UNCHANGED <<log, inputVars, workflowVars, deployVars>>

SubmitOk(guid) == [ok |-> TRUE, err |-> "", guid |-> guid]

SubmitErr(msg) == [ok |-> FALSE, err |-> msg, guid |-> ""]

\* Lines 185-200: what submit_verification makes of the explorer's answer.
submit_verification(resp) ==
    CASE resp.kind = "transport_error" ->
            SubmitErr("failed to send verification request to Etherscan: "
                      \o resp.result)
      [] resp.kind = "bad_body" ->
            SubmitErr("failed to parse Etherscan verification response: "
                      \o resp.result)
      [] OTHER ->
            IF ~is_ok(resp)
            THEN SubmitErr("Etherscan verification submission failed: "
                           \o resp.result)
            ELSE SubmitOk(resp.result)

\* The POST of submit_verification (lines 173-189).
SubmitRequest(c, resp) ==
    [ev |-> "POST", url |-> c.base_url,
     query |-> [chainid |-> c.chain_id, apikey |-> c.api_key],
     form |-> [module |-> "contract", action |-> "verifysourcecode",
               contractaddress |-> c.contract_address,
               sourceCode |-> c.standard_json,
               codeformat |-> "solidity-standard-json-input",
               contractname |-> c.contract_name,
               compilerversion |-> c.compiler_version,
               constructorArguments |-> c.constructor_args],
     resp |-> resp]

\* MoreSubmits with the bound taken inclusively: a fourth attempt.
MoreSubmits_Inclusive(attempt) == attempt <= SUBMIT_RETRIES

\* Line 312: whether a failed attempt is followed by another one.
MoreSubmits(attempt) == attempt < SUBMIT_RETRIES

\* Lines 292-324, one pass of the submission loop: a job identifier ends the
\* loop; a failure is retried after a delay, the last one is the outcome.
SubmitAttempt ==
    /\ vc.pc = "submit"
    /\ \E resp \in SubmitResponses :
          /\ log' = Append(log, SubmitRequest(vc, resp))
          /\ LET r == submit_verification(resp) IN
             IF r.ok
             THEN /\ vc' = [vc EXCEPT !.pc = "poll_sleep", !.guid = r.guid,
                                      !.poll_attempt = 1]
                  /\ vret' = None
             ELSE IF MoreSubmits(vc.attempt)
             THEN /\ vc' = [vc EXCEPT !.pc = "retry_sleep"]
                  /\ vret' = None
             ELSE /\ vc' = IdleCall
                  /\ vret' = Some(VOk(Failed(r.err)))
    /\ UNCHANGED <<reads, inputVars, workflowVars, deployVars>>

Sleep(secs) == [ev |-> "sleep", secs |-> secs]

\* Line 317: the delay before the next submission attempt.
SubmitRetrySleep ==
    /\ vc.pc = "retry_sleep"
    /\ log' = Append(log, Sleep(SUBMIT_RETRY_DELAY))
    /\ vc' = [vc EXCEPT !.pc = "submit", !.attempt = @ + 1]
    /\ UNCHANGED <<vret, reads, inputVars, workflowVars, deployVars>>

\* PollSleep that waits the submission's retry delay.
PollSleep_RetryDelay ==
    /\ vc.pc = "poll_sleep"
    /\ log' = Append(log, Sleep(SUBMIT_RETRY_DELAY))
    /\ vc' = [vc EXCEPT !.pc = "poll"]
    /\ UNCHANGED <<vret, reads, inputVars, workflowVars, deployVars>>

\* Line 214: the interval sleep that opens each pass of the polling loop.
PollSleep ==
    /\ vc.pc = "poll_sleep"
    /\ log' = Append(log, Sleep(POLL_INTERVAL))
    /\ vc' = [vc EXCEPT !.pc = "poll"]
    /\ UNCHANGED <<vret, reads, inputVars, workflowVars, deployVars>>

\* StatusRequest with the guid and apikey arguments exchanged.
StatusRequest_SwappedGuid(c, resp) ==
    [ev |-> "GET", url |-> c.base_url,
     query |-> [chainid |-> c.chain_id, module |-> "contract",
                action |-> "checkverifystatus", guid |-> c.api_key,
                apikey |-> c.guid],
     resp |-> resp]

\* The GET of poll_status (lines 216-225).
StatusRequest(c, resp) ==
    [ev |-> "GET", url |-> c.base_url,
     query |-> [chainid |-> c.chain_id, module |-> "contract",
                action |-> "checkverifystatus", guid |-> c.guid,
                apikey |-> c.api_key],
     resp |-> resp]

\* poll_status_match with the success string misspelt: it falls to the
\* last arm.
poll_status_match_Misspelt(result) ==
    CASE result = "Pass - verified" -> Some(Verified)
      [] result = "Already Verified" -> Some(AlreadyVerified)
      [] result = "Pending in queue" -> None
      [] OTHER -> Some(Failed(result))

\* poll_status_match whose last arm keeps polling.
poll_status_match_Lenient(result) ==
    CASE result = "Pass - Verified" -> Some(Verified)
      [] result = "Already Verified" -> Some(AlreadyVerified)
      [] OTHER -> None

\* poll_status_match that reports an already verified contract as Verified.
poll_status_match_Conflated(result) ==
    CASE result \in {"Pass - Verified", "Already Verified"} -> Some(Verified)
      [] result = "Pending in queue" -> None
      [] OTHER -> Some(Failed(result))

\* Lines 237-242: the outcome a status string ends the polling with; None
\* when the polling continues.
poll_status_match(result) ==
    CASE result = "Pass - Verified" -> Some(Verified)
      [] result = "Already Verified" -> Some(AlreadyVerified)
      [] result = "Pending in queue" -> None
      [] OTHER -> Some(Failed(result))

\* Lines 245-247.
TimedOut ==
    Failed("timed out after " \o ToString(MAX_POLL_ATTEMPTS) \o " attempts")

\* Lines 225-230: a request that fails, or a body that does not parse, is
\* poll_status's error.
poll_status_error(resp) ==
    CASE resp.kind = "transport_error" ->
            Some(VErr("failed to poll Etherscan verification status: "
                      \o resp.result))
      [] resp.kind = "bad_body" ->
            Some(VErr("failed to parse Etherscan status response: "
                      \o resp.result))
      [] OTHER -> None

\* MorePolls with the bound taken inclusively: a 21st pass.
MorePolls_Inclusive(attempt) == attempt <= MAX_POLL_ATTEMPTS

\* Whether the polling loop has a pass after pass number attempt (line 213).
MorePolls(attempt) == attempt < MAX_POLL_ATTEMPTS

\* Lines 216-247 and 329-345, one pass of the polling loop after its sleep:
\* poll_status's return value is verify_contract's.
PollRequest ==
    /\ vc.pc = "poll"
    /\ \E resp \in PollResponses :
          /\ log' = Append(log, StatusRequest(vc, resp))
          /\ LET failure == poll_status_error(resp) IN
             IF IsSome(failure)
             THEN /\ vc' = IdleCall
                  /\ vret' = Some(Unwrap(failure))
             ELSE LET outcome == poll_status_match(resp.result) IN
                  IF IsSome(outcome)
                  THEN /\ vc' = IdleCall
                       /\ vret' = Some(VOk(Unwrap(outcome)))
                  ELSE IF MorePolls(vc.poll_attempt)
                  THEN /\ vc' = [vc EXCEPT !.pc = "poll_sleep",
                                           !.poll_attempt = @ + 1]
                       /\ vret' = None
                  ELSE /\ vc' = IdleCall
                       /\ vret' = Some(VOk(TimedOut))
    /\ UNCHANGED <<reads, inputVars, workflowVars, deployVars>>

(* ------------------------------------------------------------------ *)
(* commands/publish.rs and commands/new_compliance_definition.rs: run   *)
(* ------------------------------------------------------------------ *)

\* PublishSteps with the removal of Verifier.sol ahead of the verification.
PublishSteps_RemovesEarly ==
    <<"is_dir", "nargo_toml", "find_source_file", "nargo_check",
      "nargo_compile", "write_vk", "write_solidity_verifier", "ipfs_add",
      "copy_verifier", "forge_build", "create_provider", "deploy_verifier",
      "get_chain_id", "remove_verifier", "verify_verifier", "verification",
      "parse_args", "update_constraint", "write_receipt">>

\* publish::run, in the order of its statements.
PublishSteps ==
    <<"is_dir", "nargo_toml", "find_source_file", "nargo_check",
      "nargo_compile", "write_vk", "write_solidity_verifier", "ipfs_add",
      "copy_verifier", "forge_build", "create_provider", "deploy_verifier",
      "get_chain_id", "verify_verifier", "remove_verifier", "verification",
      "parse_args", "update_constraint", "write_receipt">>

\* new_compliance_definition::run, in the order of its statements.
NewComplianceDefinitionSteps ==
    <<"is_dir", "nargo_toml", "parse_regulator", "find_source_file",
      "create_provider", "get_chain_id", "forge_build_cd", "deploy_cd",
      "verify_cd", "nargo_check", "nargo_compile", "write_vk",
      "write_solidity_verifier", "ipfs_add", "copy_verifier", "forge_build",
      "deploy_verifier", "verify_verifier", "remove_verifier", "verification",
      "parse_args", "update_constraint", "write_receipt">>

Steps(c) == IF c = "publish" THEN PublishSteps ELSE NewComplianceDefinitionSteps

\* The statement the run is at.
At == Steps(cmd)[step]

Running == exit.status = "running"

\* The statements that succeed or fail with their environment (the file
\* system, an external tool, the IPFS node, the RPC node, an argument).
EnvSteps ==
    {"is_dir", "nargo_toml", "parse_regulator", "find_source_file",
     "nargo_check", "nargo_compile", "write_vk", "write_solidity_verifier",
     "ipfs_add", "copy_verifier", "forge_build", "forge_build_cd",
     "create_provider", "get_chain_id", "parse_args"}

\* The error a failing statement ends the run with.
StepError(label) ==
    CASE label = "is_dir" -> "not a directory"
      [] label = "nargo_toml" -> "no Nargo.toml found"
      [] label = "parse_regulator" -> "invalid regulator address"
      [] label = "find_source_file" -> "source file not found"
      [] label = "nargo_check" -> "circuit validation failed"
      [] label = "nargo_compile" -> "nargo compile failed"
      [] label = "write_vk" -> "bb write_vk failed"
      [] label = "write_solidity_verifier" -> "bb write_solidity_verifier failed"
      [] label = "ipfs_add" -> "failed to upload to IPFS"
      [] label = "copy_verifier" -> "failed to copy Verifier.sol"
      [] label \in {"forge_build", "forge_build_cd"} -> "forge build failed"
      [] label = "create_provider" -> "failed to parse private key"
      [] label = "get_chain_id" -> "failed to query chain ID from RPC"
      [] OTHER -> "invalid argument"

ExitError(msg) == [status |-> "error", err |-> msg]

\* What the project path can be: no directory, a directory without
\* Nargo.toml, a Noir project whose circuit source is not valid Noir, and a
\* Noir project with a valid circuit.
Projects == {"not_a_directory", "no_nargo_toml", "invalid_circuit", "valid"}

\* The outcomes of a statement when all it looks at is there.
EnvOutcomes_Unvalidated(label) ==
    CASE label \in {"nargo_check", "nargo_compile"}
              /\ project = "invalid_circuit" -> {FALSE}
      [] OTHER -> BOOLEAN

\* The outcomes a statement can have, TRUE for success: project_dir.is_dir()
\* and project_dir.join("Nargo.toml").exists() (publish.rs lines 47-56) are
\* decided by the path; nargo check and nargo compile (nargo.rs lines 43-81)
\* do not succeed on a circuit that is not valid Noir; every other
\* statement succeeds or fails with its environment.
EnvOutcomes(label) ==
    CASE label = "is_dir" -> {project # "not_a_directory"}
      [] label = "nargo_toml" ->
              {project \notin {"not_a_directory", "no_nargo_toml"}}
      [] label \in {"nargo_check", "nargo_compile"}
              /\ project = "invalid_circuit" -> {FALSE}
      [] OTHER -> BOOLEAN

ChainIds == {11155111}

Cids == {"QmCircuit"}

\* The `?` of a statement: on success the run goes on to the next statement.
Advance == step' = step + 1

\* A statement of EnvSteps: it fails and ends the run, or succeeds with its
\* effect.
RunEnvStep ==
    /\ Running
    /\ At \in EnvSteps
    /\ \E succeeds \in EnvOutcomes(At) :
          IF ~succeeds
          THEN /\ exit' = ExitError(StepError(At))
               /\ UNCHANGED <<step, run, verifier_sol>>
          ELSE /\ Advance
               /\ exit' = exit
               /\ verifier_sol' = IF At = "copy_verifier" THEN TRUE
                                  ELSE verifier_sol
               /\ \E id \in ChainIds, cid \in Cids :
                     run' = CASE At = "get_chain_id" ->
                                    [run EXCEPT !.chain_id = id]
                              [] At = "ipfs_add" ->
                                    [run EXCEPT !.cid = Some(cid)]
                              [] OTHER -> run
    /\ UNCHANGED <<receipts, inputVars, deployVars, verifyVars>>

DeploySteps == {"deploy_cd", "deploy_verifier"}

\* Bytes::from(regulator_addr.abi_encode())
RegulatorArgs == <<[bytes |-> "abi(regulator)"]>>

\* eth::deploy_from_artifact(&provider, &artifact, args) is called.
RunDeploy ==
    /\ Running
    /\ At \in DeploySteps
    /\ stack = <<>>
    /\ ret = None
    /\ stack' = IF At = "deploy_cd"
                THEN <<Frame(ComplianceDefinitionArtifact, Some(RegulatorArgs))>>
                ELSE <<Frame(HonkVerifierArtifact, None)>>
    /\ UNCHANGED <<ret, chain, inputVars, workflowVars, verifyVars>>

\* RunDeployed that answers a failed deployment by deploying again.
RunDeployed_Retries ==
    /\ Running
    /\ At \in DeploySteps
    /\ stack = <<>>
    /\ IsSome(ret)
    /\ ret' = None
    /\ IF ~Unwrap(ret).ok
       THEN UNCHANGED <<exit, step, run>>
       ELSE /\ Advance
            /\ exit' = exit
            /\ run' = IF At = "deploy_cd"
                      THEN [run EXCEPT !.cd_result = ret]
                      ELSE [run EXCEPT !.verifier_result = ret]
    /\ UNCHANGED <<stack, chain, verifier_sol, receipts, inputVars, verifyVars>>

\* ... .await?: its error ends the run, its output is kept.
RunDeployed ==
    /\ Running
    /\ At \in DeploySteps
    /\ stack = <<>>
    /\ IsSome(ret)
    /\ ret' = None
    /\ IF ~Unwrap(ret).ok
       THEN /\ exit' = ExitError(Unwrap(ret).err)
            /\ UNCHANGED <<step, run>>
       ELSE /\ Advance
            /\ exit' = exit
            /\ run' = IF At = "deploy_cd"
                      THEN [run EXCEPT !.cd_result = ret]
                      ELSE [run EXCEPT !.verifier_result = ret]
    /\ UNCHANGED <<stack, chain, verifier_sol, receipts, inputVars, verifyVars>>

VerifySteps == {"verify_cd", "verify_verifier"}

\* etherscan::verify_contract(...) is called for the contract just deployed.
RunVerify ==
    /\ Running
    /\ At \in VerifySteps
    /\ vc.pc = "idle"
    /\ vret = None
    /\ log' = <<>>
    /\ reads' = <<>>
    /\ vc' = IF At = "verify_cd"
             THEN [IdleCall EXCEPT
                     !.pc = "entry",
                     !.artifact_path = ComplianceDefinitionArtifact,
                     !.chain_id = run.chain_id,
                     !.contract_address = Unwrap(run.cd_result).deployed_to,
                     !.contract_name =
                         "src/ComplianceDefinition.sol:ComplianceDefinition",
                     !.constructor_args = "abi(regulator)"]
             ELSE [IdleCall EXCEPT
                     !.pc = "entry",
                     !.artifact_path = HonkVerifierArtifact,
                     !.chain_id = run.chain_id,
                     !.contract_address = Unwrap(run.verifier_result).deployed_to,
                     !.contract_name = "src/Verifier.sol:HonkVerifier"]
    /\ UNCHANGED <<vret, inputVars, workflowVars, deployVars>>

\* verify_contract returned. For the ComplianceDefinition the call is
\* `.await?`: an error ends the run. For the verifier the result is kept
\* until Verifier.sol has been removed.
RunVerified ==
    /\ Running
    /\ At \in VerifySteps
    /\ IsSome(vret)
    /\ vret' = None
    /\ log' = <<>>
    /\ reads' = <<>>
    /\ IF At = "verify_cd"
       THEN IF ~Unwrap(vret).ok
            THEN /\ exit' = ExitError(Unwrap(vret).err)
                 /\ UNCHANGED <<step, run>>
            ELSE /\ Advance
                 /\ exit' = exit
                 /\ run' = [run EXCEPT
                               !.cd_verification = Some(Unwrap(vret).outcome)]
       ELSE /\ Advance
            /\ exit' = exit
            /\ run' = [run EXCEPT !.verifier_verification = vret]
    /\ UNCHANGED <<vc, verifier_sol, receipts, inputVars, deployVars>>

\* let _ = std::fs::remove_file(&deploy_verifier_path);
RunRemoveVerifier ==
    /\ Running
    /\ At = "remove_verifier"
    /\ verifier_sol' = FALSE
    /\ Advance
    /\ UNCHANGED <<run, exit, receipts, inputVars, deployVars, verifyVars>>

\* RunVerificationResult that goes on whatever the verification returned.
RunVerificationResult_IgnoresError ==
    /\ Running
    /\ At = "verification"
    /\ Advance
    /\ exit' = exit
    /\ UNCHANGED <<run, verifier_sol, receipts, inputVars, deployVars, verifyVars>>

\* let verification = verification?;
RunVerificationResult ==
    /\ Running
    /\ At = "verification"
    /\ IF ~Unwrap(run.verifier_verification).ok
       THEN /\ exit' = ExitError(Unwrap(run.verifier_verification).err)
            /\ step' = step
       ELSE /\ Advance
            /\ exit' = exit
    /\ UNCHANGED <<run, verifier_sol, receipts, inputVars, deployVars, verifyVars>>

\* eth::call_update_constraint (eth.rs lines 163-188) and its `?`.
RunUpdateConstraint ==
    /\ Running
    /\ At = "update_constraint"
    /\ \E result \in {"broadcast_error", "receipt_error", "receipt"} :
          IF result = "broadcast_error"
          THEN /\ exit' = ExitError("failed to broadcast updateConstraint transaction")
               /\ UNCHANGED <<step, run, chain>>
          ELSE /\ chain' = Append(chain,
                      [kind |-> "updateConstraint",
                       root |-> <<>>,
                       artifact |-> <<>>,
                       data |-> [to |-> IF cmd = "publish" THEN 0
                                        ELSE Unwrap(run.cd_result).deployed_to,
                                 newVerifier |->
                                     Unwrap(run.verifier_result).deployed_to,
                                 metadataHash |-> Unwrap(run.cid)],
                       status |-> IF result = "receipt" THEN "confirmed"
                                  ELSE "unknown"])
               /\ IF result = "receipt_error"
                  THEN /\ exit' = ExitError("updateConstraint transaction failed")
                       /\ UNCHANGED <<step, run>>
                  ELSE /\ Advance
                       /\ exit' = exit
                       /\ run' = [run EXCEPT
                                     !.update_tx = Some(TxHash(Len(chain) + 1))]
    /\ UNCHANGED <<stack, ret, verifier_sol, receipts, inputVars, verifyVars>>

\* Utc::now().format("%Y%m%dT%H%M%S") (receipt.rs line 28): the clock's
\* second, nothing finer.
SafeTs(second) == "T" \o ToString(second)

Timestamps == {SafeTs(second) : second \in 1..MaxSeconds}

\* format!("{}-{}.json", self.command, safe_ts) (receipt.rs line 29).
Filename(command, safe_ts) == command \o "-" \o safe_ts \o ".json"

\* ReceiptData with the update's hash in the place of the deployment's.
ReceiptData_SwappedTx ==
    [command |-> cmd,
     cid |-> Unwrap(run.cid),
     verifier_address |-> Unwrap(run.verifier_result).deployed_to,
     verifier_tx |-> Unwrap(run.update_tx),
     verifier_verification |-> Display(Unwrap(run.verifier_verification).outcome),
     compliance_definition_address |->
         IF cmd = "publish" THEN 0 ELSE Unwrap(run.cd_result).deployed_to,
     compliance_definition_verification |->
         IF cmd = "publish" THEN "" ELSE Display(Unwrap(run.cd_verification)),
     update_tx |-> Unwrap(run.update_tx)]

\* The data of the run's receipt (PublishData, NewComplianceDefinitionData).
ReceiptData ==
    [command |-> cmd,
     cid |-> Unwrap(run.cid),
     verifier_address |-> Unwrap(run.verifier_result).deployed_to,
     verifier_tx |-> Unwrap(run.verifier_result).transaction_hash,
     verifier_verification |-> Display(Unwrap(run.verifier_verification).outcome),
     compliance_definition_address |->
         IF cmd = "publish" THEN 0 ELSE Unwrap(run.cd_result).deployed_to,
     compliance_definition_verification |->
         IF cmd = "publish" THEN "" ELSE Display(Unwrap(run.cd_verification)),
     update_tx |-> Unwrap(run.update_tx)]

\* Receipt::new(..).write_to_dir(receipts_dir)? and Ok(()) (receipt.rs).
RunWriteReceipt ==
    /\ Running
    /\ At = "write_receipt"
    /\ \E written \in BOOLEAN, ts \in Timestamps :
          IF ~written
          THEN /\ exit' = ExitError("failed to write receipt")
               /\ receipts' = receipts
          ELSE /\ exit' = [status |-> "ok", err |-> ""]
               /\ receipts' = (Filename(cmd, ts) :> ReceiptData)
                              @@ receipts
    /\ UNCHANGED <<step, run, verifier_sol, inputVars, deployVars, verifyVars>>

(* ------------------------------------------------------------------ *)
(* Concurrent runs of one Foundry project (publish.rs lines 93-132,     *)
(* new_compliance_definition.rs lines 131-163)                          *)
(* ------------------------------------------------------------------ *)

Runs == 1..MaxRuns

\* The content of a file: no file, or the Verifier.sol that run p generated
\* from its circuit (and its compilation).
Absent == 0

\* The statements of a run from the copy of Verifier.sol to the check of the
\* verification result.
VerifierSteps ==
    <<"copy_verifier", "forge_build", "deploy_verifier", "verify_verifier",
      "remove_verifier", "verification">>

\* A run before its copy: what forge build compiled for it, what it deployed
\* and what it submitted for verification are not yet known.
NewRun ==
    [step |-> 1, exit |-> [status |-> "running", err |-> ""],
     built |-> None, deployed |-> None, verified |-> None,
     verification |-> None]

AtStep(p, label) ==
    /\ procs[p].exit.status = "running"
    /\ VerifierSteps[procs[p].step] = label

\* std::fs::copy(&verifier_path, &deploy_verifier_path)?
CopyVerifier(p) ==
    /\ AtStep(p, "copy_verifier")
    /\ \E copied \in BOOLEAN :
          IF ~copied
          THEN /\ procs' = [procs EXCEPT ![p].exit =
                               ExitError(StepError("copy_verifier"))]
               /\ shared' = shared
          ELSE /\ procs' = [procs EXCEPT ![p].step = @ + 1]
               /\ shared' = [shared EXCEPT !.src = p]
    /\ UNCHANGED <<world, cmd, verify, project, workflowVars, deployVars, verifyVars,
                   receiptVars, initVars>>

\* forge::build(contract_dir)?: forge compiles the sources it finds; without
\* a src/Verifier.sol the verifier's artifact is left as it is or pruned.
ForgeBuild(p) ==
    /\ AtStep(p, "forge_build")
    /\ \E built \in BOOLEAN, pruned \in BOOLEAN :
          IF ~built
          THEN /\ procs' = [procs EXCEPT ![p].exit =
                               ExitError(StepError("forge_build"))]
               /\ shared' = shared
          ELSE /\ procs' = [procs EXCEPT ![p].step = @ + 1,
                                         ![p].built = Some(shared.src)]
               /\ shared' = [shared EXCEPT !.out =
                                IF shared.src # Absent THEN shared.src
                                ELSE IF pruned THEN Absent ELSE @]
    /\ UNCHANGED <<world, cmd, verify, project, workflowVars, deployVars, verifyVars,
                   receiptVars, initVars>>

\* eth::deploy_from_artifact(&provider, &artifact, None).await?: the
\* artifact file is read as it is at that moment.
DeployVerifier(p) ==
    /\ AtStep(p, "deploy_verifier")
    /\ IF shared.out = Absent
       THEN procs' = [procs EXCEPT ![p].exit = ExitError("failed to read artifact")]
       ELSE procs' = [procs EXCEPT ![p].step = @ + 1,
                                   ![p].deployed = Some(shared.out)]
    /\ UNCHANGED <<shared, world, cmd, verify, project, workflowVars, deployVars, verifyVars,
                   receiptVars, initVars>>

\* etherscan::verify_contract(...).await: with an API key the standard JSON
\* input is built from the artifact file and from src/Verifier.sol as they
\* are at that moment.
VerifyVerifier(p) ==
    /\ AtStep(p, "verify_verifier")
    /\ IF ~IsSome(NonEmpty(verify.etherscan_api_key))
       THEN procs' = [procs EXCEPT ![p].step = @ + 1,
                                   ![p].verification = Some(VOk(Skipped))]
       ELSE IF shared.out = Absent
       THEN procs' = [procs EXCEPT
                ![p].step = @ + 1,
                ![p].verification = Some(VErr(
                    "failed to build standard JSON input for verification: "
                    \o "failed to read artifact"))]
       ELSE IF shared.src = Absent
       THEN procs' = [procs EXCEPT
                ![p].step = @ + 1,
                ![p].verified = Some(shared.src),
                ![p].verification = Some(VErr(
                    "failed to build standard JSON input for verification: "
                    \o "failed to read source"))]
       ELSE \E outcome \in {Verified, Failed("Fail - Unable to verify")} :
               procs' = [procs EXCEPT ![p].step = @ + 1,
                                      ![p].verified = Some(shared.src),
                                      ![p].verification = Some(VOk(outcome))]
    /\ UNCHANGED <<shared, world, cmd, verify, project, workflowVars, deployVars, verifyVars,
                   receiptVars, initVars>>

\* let _ = std::fs::remove_file(&deploy_verifier_path);
RemoveVerifier(p) ==
    /\ AtStep(p, "remove_verifier")
    /\ procs' = [procs EXCEPT ![p].step = @ + 1]
    /\ shared' = [shared EXCEPT !.src = Absent]
    /\ UNCHANGED <<world, cmd, verify, project, workflowVars, deployVars, verifyVars,
                   receiptVars, initVars>>

\* let verification = verification?; the rest of the run touches neither
\* file.
VerificationResult(p) ==
    /\ AtStep(p, "verification")
    /\ procs' = [procs EXCEPT ![p].exit =
                    IF Unwrap(procs[p].verification).ok
                    THEN [status |-> "ok", err |-> ""]
                    ELSE ExitError(Unwrap(procs[p].verification).err)]
    /\ UNCHANGED <<shared, world, cmd, verify, project, workflowVars, deployVars, verifyVars,
                   receiptVars, initVars>>

(* ------------------------------------------------------------------ *)
(* Runs that write into one receipts directory (main.rs lines 21-23 and *)
(* 132-178, receipt.rs lines 13-38)                                     *)
(* ------------------------------------------------------------------ *)

Commands == {"publish", "new-compliance-definition"}

\* A run the command line has not been parsed for yet.
NewWriter ==
    [pc |-> "main", command |-> "", timestamp |-> 0, path |-> None,
     exit |-> [status |-> "running", err |-> ""]]

AtWrite(p, label) ==
    /\ writers[p].exit.status = "running"
    /\ writers[p].pc = label

WriterVars ==
    <<world, cmd, verify, project, step, run, exit, verifier_sol, deployVars,
      verifyVars, procs, shared, initVars>>

\* match cli.command (main.rs line 132) and the command's run up to its
\* receipt: the runs followed here are those that got that far.
RunCommand(p) ==
    /\ AtWrite(p, "main")
    /\ \E command \in Commands :
          writers' = [writers EXCEPT ![p].command = command, ![p].pc = "new"]
    /\ UNCHANGED <<clock, receipts, WriterVars>>

\* Receipt::new(command, data) (receipt.rs lines 14-20).
ReceiptNew(p) ==
    /\ AtWrite(p, "new")
    /\ writers' = [writers EXCEPT ![p].timestamp = clock,
                                  ![p].pc = "create_dir_all"]
    /\ UNCHANGED <<clock, receipts, WriterVars>>

\* std::fs::create_dir_all(dir)? (receipt.rs lines 25-26).
CreateDirAll(p) ==
    /\ AtWrite(p, "create_dir_all")
    /\ \E created \in BOOLEAN :
          writers' = IF created
                     THEN [writers EXCEPT ![p].pc = "filename"]
                     ELSE [writers EXCEPT ![p].exit =
                              ExitError("failed to create receipts directory")]
    /\ UNCHANGED <<clock, receipts, WriterVars>>

\* safe_ts, filename and path (receipt.rs lines 28-30).
ReceiptPath(p) ==
    /\ AtWrite(p, "filename")
    /\ writers' = [writers EXCEPT
                      ![p].path = Some(Filename(writers[p].command, SafeTs(clock))),
                      ![p].pc = "write"]
    /\ UNCHANGED <<clock, receipts, WriterVars>>

\* The receipt of run p as write_to_dir serialises it.
ReceiptOf(p) ==
    [command |-> writers[p].command, timestamp |-> writers[p].timestamp,
     data |-> p]

\* serde_json::to_string_pretty(self), std::fs::write(&path, &json)? and
\* Ok(()) (receipt.rs lines 32-37): the file is created or truncated.
WriteFile(p) ==
    /\ AtWrite(p, "write")
    /\ \E written \in BOOLEAN :
          IF ~written
          THEN /\ writers' = [writers EXCEPT ![p].exit =
                                 ExitError("failed to write receipt")]
               /\ receipts' = receipts
          ELSE /\ writers' = [writers EXCEPT
                                 ![p].pc = "done",
                                 ![p].exit = [status |-> "ok", err |-> ""]]
               /\ receipts' = (Unwrap(writers[p].path) :> ReceiptOf(p))
                              @@ receipts
    /\ UNCHANGED <<clock, WriterVars>>

\* A second passes.
Tick ==
    /\ clock < MaxSeconds
    /\ clock' = clock + 1
    /\ UNCHANGED <<writers, receipts, WriterVars>>

(* ------------------------------------------------------------------ *)
(* commands/init.rs                                                     *)
(* ------------------------------------------------------------------ *)

\* The names init is run with.
Names == {"my_circuit", "existing"}

NARGO_TOML_TEMPLATE ==
    <<"[package] name = \"", "{name}", "\" type = \"bin\" authors = [\"\"] [dependencies]">>

MAIN_NR_TEMPLATE ==
    <<"fn main(x: u64, y: pub u64) { assert(x != y); } #[test] fn test_main() { main(1, 2); }">>

\* NARGO_TOML_TEMPLATE.replace("{name}", name)
ReplaceName(template, name) ==
    [i \in 1..Len(template) |->
        IF template[i] = "{name}" THEN name ELSE template[i]]

\* What is at a path: nothing, a file, or a directory with or without src,
\* Nargo.toml and src/main.nr.
NoEntry ==
    [kind |-> "absent", src |-> FALSE, nargo_toml |-> None, main_nr |-> None]

Directory(src, nargo_toml, main_nr) ==
    [kind |-> "dir", src |-> src, nargo_toml |-> nargo_toml,
     main_nr |-> main_nr]

\* The project a successful init leaves.
Project(name) ==
    Directory(TRUE, Some(ReplaceName(NARGO_TOML_TEMPLATE, name)),
              Some(MAIN_NR_TEMPLATE))

\* What something other than init puts at a path: a file, an empty directory
\* or a project with a circuit of its own.
OtherEntries ==
    {[kind |-> "file", src |-> FALSE, nargo_toml |-> None, main_nr |-> None],
     Directory(FALSE, None, None),
     Directory(TRUE, Some(<<"[package] name = \"mine\"">>),
               Some(<<"fn main(x: Field) { assert(x != 0); }">>))}

\* Path::exists
Exists(name) == fs[name].kind # "absent"

NoInit ==
    [name |-> "", pc |-> "none", again |-> FALSE,
     exit |-> [status |-> "none", err |-> ""]]

AtInit(label) ==
    /\ init.exit.status = "running"
    /\ init.pc = label

InitUnchanged ==
    <<world, cmd, verify, project, workflowVars, deployVars, verifyVars, procs, shared,
      receiptVars>>

\* Something other than init creates a path.
OtherCreates(name) ==
    /\ ~Exists(name)
    /\ \E entry \in OtherEntries : fs' = [fs EXCEPT ![name] = entry]
    /\ UNCHANGED <<init, inited, InitUnchanged>>

\* Commands::Init { name } => commands::init::run(&name) (main.rs line
\* 149), once the run before it has ended; again records whether an init
\* of this name has succeeded before.
StartInit(name) ==
    /\ init.exit.status # "running"
    /\ init' = [name |-> name, pc |-> "exists", again |-> name \in inited,
                exit |-> [status |-> "running", err |-> ""]]
    /\ UNCHANGED <<fs, inited, InitUnchanged>>

\* The check that lets every path through.
InitExists_Unchecked ==
    /\ AtInit("exists")
    /\ init' = [init EXCEPT !.pc = "create_dir_all"]
    /\ UNCHANGED <<fs, inited, InitUnchanged>>

\* if project_dir.exists() { bail!(..) } (lines 25-27).
InitExists ==
    /\ AtInit("exists")
    /\ init' = IF Exists(init.name)
               THEN [init EXCEPT !.exit =
                        ExitError("directory already exists: " \o init.name)]
               ELSE [init EXCEPT !.pc = "create_dir_all"]
    /\ UNCHANGED <<fs, inited, InitUnchanged>>

\* std::fs::create_dir_all(project_dir.join("src"))? (line 29): the
\* directories that are missing are created in order; a file in the way or
\* a refusal of the file system is an error, with the project directory
\* created or not.
InitCreateDirAll ==
    /\ AtInit("create_dir_all")
    /\ LET entry == fs[init.name] IN
       \E made_dir \in BOOLEAN, made_src \in BOOLEAN :
          LET dir == IF entry.kind = "absent" /\ made_dir
                     THEN Directory(FALSE, None, None) ELSE entry
              ok  == dir.kind = "dir" /\ (dir.src \/ made_src)
          IN  /\ fs' = [fs EXCEPT ![init.name] =
                           IF ok THEN [dir EXCEPT !.src = TRUE] ELSE dir]
              /\ init' = IF ok
                         THEN [init EXCEPT !.pc = "write_nargo_toml"]
                         ELSE [init EXCEPT !.exit =
                                  ExitError("failed to create directory")]
    /\ UNCHANGED <<inited, InitUnchanged>>

\* std::fs::write(project_dir.join("Nargo.toml"), ..)? (lines 31-34): a
\* failed write leaves the file as it was or empty.
InitWriteNargoToml ==
    /\ AtInit("write_nargo_toml")
    /\ \E written \in BOOLEAN, truncated \in BOOLEAN :
          IF written /\ fs[init.name].kind = "dir"
          THEN /\ fs' = [fs EXCEPT ![init.name].nargo_toml =
                           Some(ReplaceName(NARGO_TOML_TEMPLATE, init.name))]
               /\ init' = [init EXCEPT !.pc = "write_main_nr"]
          ELSE /\ fs' = IF truncated /\ fs[init.name].kind = "dir"
                        THEN [fs EXCEPT ![init.name].nargo_toml = Some(<<>>)]
                        ELSE fs
               /\ init' = [init EXCEPT !.exit =
                              ExitError("failed to write Nargo.toml")]
    /\ UNCHANGED <<inited, InitUnchanged>>

\* std::fs::write(project_dir.join("src/main.nr"), MAIN_NR_TEMPLATE)?,
\* println! and Ok(()) (lines 36-40).
InitWriteMainNr ==
    /\ AtInit("write_main_nr")
    /\ \E written \in BOOLEAN, truncated \in BOOLEAN :
          IF written /\ fs[init.name].src
          THEN /\ fs' = [fs EXCEPT ![init.name].main_nr = Some(MAIN_NR_TEMPLATE)]
               /\ init' = [init EXCEPT !.pc = "done",
                                       !.exit = [status |-> "ok", err |-> ""]]
               /\ inited' = inited \cup {init.name}
          ELSE /\ fs' = IF truncated /\ fs[init.name].src
                        THEN [fs EXCEPT ![init.name].main_nr = Some(<<>>)]
                        ELSE fs
               /\ init' = [init EXCEPT !.exit =
                              ExitError("failed to write src/main.nr")]
               /\ inited' = inited
    /\ UNCHANGED InitUnchanged

(* ------------------------------------------------------------------ *)
(* The specification                                                    *)
(* ------------------------------------------------------------------ *)

\* VerifyArgs as the command line gives them.
VerifyArgsSet ==
    {[etherscan_api_key |-> None, verifier_url |-> None],
     [etherscan_api_key |-> Some(""), verifier_url |-> Some("https://blockscout/api")],
     [etherscan_api_key |-> Some("KEY"), verifier_url |-> None],
     [etherscan_api_key |-> Some("KEY"), verifier_url |-> Some("")],
     [etherscan_api_key |-> Some("KEY"), verifier_url |-> Some("https://blockscout/api")]}

\* The runs the model follows: every world under every command, with the
\* verifier URL varied in the plain world.
Init ==
    /\ world \in WorldNames
    /\ cmd \in {"publish", "new-compliance-definition"}
    /\ verify \in VerifyArgsSet
    /\ IsSome(verify.verifier_url) /\ IsSome(NonEmpty(verify.etherscan_api_key))
          => world = "plain"
    /\ project \in Projects
    /\ project # "valid" => world = "plain" /\ verify.verifier_url = None
    /\ step = 1
    /\ run = [chain_id |-> 0, cid |-> None, cd_result |-> None,
              cd_verification |-> None, verifier_result |-> None,
              verifier_verification |-> None, update_tx |-> None]
    /\ exit = [status |-> "running", err |-> ""]
    /\ verifier_sol = FALSE
    /\ receipts = <<>>
    /\ stack = <<>>
    /\ ret = None
    /\ chain = <<>>
    /\ vc = IdleCall
    /\ vret = None
    /\ log = <<>>
    /\ reads = <<>>
    /\ procs = [p \in Runs |-> NewRun]
    /\ writers = [p \in Runs |-> NewWriter]
    /\ clock = 1
    /\ fs = [name \in Names |-> NoEntry]
    /\ init = NoInit
    /\ inited = {}
    /\ shared = [src |-> Absent, out |-> Absent]

Next ==
    \/ RunEnvStep
    \/ RunDeploy
    \/ DeployRead
    \/ DeployLibrary
    \/ DeployLinked
    \/ DeploySend
    \/ DeployReceipt
    \/ RunDeployed
    \/ RunVerify
    \/ VerifyEnter
    \/ SubmitAttempt
    \/ SubmitRetrySleep
    \/ PollSleep
    \/ PollRequest
    \/ RunVerified
    \/ RunRemoveVerifier
    \/ RunVerificationResult
    \/ RunUpdateConstraint
    \/ RunWriteReceipt

Spec == Init /\ [][Next]_vars

\* MaxRuns runs started at the same time with the same --contract-dir, each
\* with a circuit of its own, with or without an API key.
InitConcurrent ==
    /\ Init
    /\ world = "plain"
    /\ cmd = "publish"
    /\ verify.verifier_url = None
    /\ project = "valid"

NextConcurrent ==
    \E p \in Runs :
        \/ CopyVerifier(p)
        \/ ForgeBuild(p)
        \/ DeployVerifier(p)
        \/ VerifyVerifier(p)
        \/ RemoveVerifier(p)
        \/ VerificationResult(p)

SpecConcurrent == InitConcurrent /\ [][NextConcurrent]_vars

\* A step of verify_contract: an HTTP call that returns, or a sleep that
\* ends.
VerifyStep ==
    \/ VerifyEnter
    \/ SubmitAttempt
    \/ SubmitRetrySleep
    \/ PollSleep
    \/ PollRequest

\* The runs of a project whose verifier links a library, with and without an
\* API key.
InitLive ==
    /\ Init
    /\ world = "one_lib"
    /\ project = "valid"

\* The runs in which verify_contract is not left waiting: each of its HTTP
\* calls returns and each of its sleeps ends.
SpecLive == InitLive /\ [][Next]_vars /\ WF_vars(VerifyStep)

\* MaxRuns command runs with the same --receipts-dir, one after the other or
\* at the same time, over MaxSeconds seconds.
InitReceipts ==
    /\ Init
    /\ world = "plain"
    /\ cmd = "publish"
    /\ verify = [etherscan_api_key |-> None, verifier_url |-> None]
    /\ project = "valid"

NextReceipts ==
    \/ \E p \in Runs :
          \/ RunCommand(p)
          \/ ReceiptNew(p)
          \/ CreateDirAll(p)
          \/ ReceiptPath(p)
          \/ WriteFile(p)
    \/ Tick

SpecReceipts == InitReceipts /\ [][NextReceipts]_vars

\* Runs of init, one after the other, in a directory where nothing or
\* something else is at the names they are given.
InitCommand ==
    /\ Init
    /\ world = "plain"
    /\ cmd = "publish"
    /\ verify = [etherscan_api_key |-> None, verifier_url |-> None]
    /\ project = "valid"

NextCommand ==
    \/ \E name \in Names : OtherCreates(name)
    \/ \E name \in Names : StartInit(name)
    \/ InitExists
    \/ InitCreateDirAll
    \/ InitWriteNargoToml
    \/ InitWriteMainNr

SpecInit == InitCommand /\ [][NextCommand]_vars

(* ------------------------------------------------------------------ *)
(* Properties                                                           *)
(* ------------------------------------------------------------------ *)

IsPost(e) == e.ev = "POST"

IsGet(e) == e.ev = "GET"

\* The submissions and the status requests of the verify_contract call in
\* progress or just returned, in order.
Posts == SelectSeq(log, IsPost)

Gets == SelectSeq(log, IsGet)

\* verify_contract has returned r and the workflow has not yet taken it.
Returned(r) == vret = Some(r) /\ vc.pc = "idle"

IsStatus(resp, text) == resp.kind = "json" /\ resp.result = text

\* The first n of the status requests gets were answered "Pending in queue".
AllPending(gets, n) ==
    \A i \in 1..n : IsStatus(gets[i].resp, "Pending in queue")

SubmitFailed(resp) == resp.kind # "json" \/ resp.status # "1"

\* C1: verification-path errors never abort the run: verify_contract never
\* returns an error to the workflow, and no run ends in error at a
\* verification statement.
C1_VerificationNeverAborts ==
    /\ IsSome(vret) => Unwrap(vret).ok
    /\ exit.status = "error" => At \notin VerifySteps \cup {"verification"}

\* C2: under one top-level deploy_from_artifact call no artifact is the
\* subject of two deployment transactions.
C2_EachLibraryDeployedOnce ==
    \A i, j \in 1..Len(chain) :
        /\ i < j
        /\ chain[i].kind = "create"
        /\ chain[j].kind = "create"
        /\ chain[i].root = chain[j].root
        => chain[i].artifact # chain[j].artifact

\* C3: a library that is reached again while its own deployment is in
\* progress is not linked again: the call for it gets no further than
\* reading the artifact (it fails instead of recursing).
C3_CycleFailsFast ==
    \A i, j \in 1..Len(stack) :
        i < j /\ stack[i].artifact_path = stack[j].artifact_path
        => stack[j].pc = "read"

\* C4: once a status request has been made, the call ends only by returning
\* Verified, AlreadyVerified or Failed(reason).
C4_PollEndsWithOutcome ==
    IsSome(vret) /\ log # <<>> /\ IsGet(log[Len(log)])
    => /\ Unwrap(vret).ok
       /\ Unwrap(vret).outcome.kind \in {"Verified", "AlreadyVerified", "Failed"}

\* C5: for every k in 1..20, when the status responses are k-1 times
\* "Pending in queue" and then "Pass - Verified", the call has returned
\* Verified at the k-th request and makes no further request.
C5_VerifiedAfterKPolls ==
    LET gets == Gets IN
    \A k \in 1..MAX_POLL_ATTEMPTS :
        /\ Len(gets) >= k
        /\ IsStatus(gets[k].resp, "Pass - Verified")
        /\ AllPending(gets, k - 1)
        => Len(gets) = k /\ Returned(VOk(Verified))

C5_Witness ==
    LET gets == Gets IN
    /\ Len(gets) = 20
    /\ AllPending(gets, 19)
    /\ IsStatus(gets[20].resp, "Pass - Verified")
    /\ Returned(VOk(Verified))

\* C6: when every status response is "Pending in queue", the call makes
\* exactly 20 status requests: it is still polling before the 20th, and with
\* the 20th it has returned Failed("timed out after 20 attempts"); no call
\* makes a 21st request.
C6_TimesOutAfter20 ==
    LET gets == Gets IN
    /\ Len(gets) <= 20
    /\ gets # <<>> /\ AllPending(gets, Len(gets)) =>
          IF Len(gets) < 20
          THEN vret = None /\ vc.pc \in {"poll_sleep", "poll"}
          ELSE Returned(VOk(Failed("timed out after 20 attempts")))

C6_Witness ==
    LET gets == Gets IN
    /\ Len(gets) = 20
    /\ AllPending(gets, 20)
    /\ Returned(VOk(Failed("timed out after 20 attempts")))

KnownStatus == {"Pending in queue", "Pass - Verified", "Already Verified"}

\* C7: a status response that is none of the three known strings is the
\* last request of the call, at whatever attempt it arrives, and the call
\* has returned Failed with that string as the reason.
C7_OtherStatusFails ==
    LET gets == Gets IN
    \A i \in 1..Len(gets) :
        gets[i].resp.kind = "json" /\ gets[i].resp.result \notin KnownStatus
        => i = Len(gets) /\ Returned(VOk(Failed(gets[i].resp.result)))

C7_Witness ==
    LET gets == Gets IN
    /\ Len(gets) = 7
    /\ IsStatus(gets[7].resp, "Pending in Queue")
    /\ Returned(VOk(Outcome("Failed", "Pending in Queue")))

\* C8: a status response "Already Verified" is the last request of the
\* call, which has returned AlreadyVerified; as the first response it is
\* the only request.
C8_AlreadyVerified ==
    LET gets == Gets IN
    \A i \in 1..Len(gets) :
        IsStatus(gets[i].resp, "Already Verified")
        => i = Len(gets) /\ Returned(VOk(AlreadyVerified))

C8_Witness ==
    LET gets == Gets IN
    /\ Len(gets) = 1
    /\ IsStatus(gets[1].resp, "Already Verified")
    /\ Returned(VOk(AlreadyVerified))

\* The error text of a failed submission, as the explorer's answer gives it.
C9_ErrorText(resp) ==
    (CASE resp.kind = "transport_error" ->
             "failed to send verification request to Etherscan: "
       [] resp.kind = "bad_body" ->
             "failed to parse Etherscan verification response: "
       [] OTHER -> "Etherscan verification submission failed: ")
    \o resp.result

\* C9: when three submissions have failed, the call has returned, as a
\* normal result, Failed with the error message of the third; it has made
\* no status request.
C9_ThreeFailuresFail ==
    LET posts == Posts IN
    /\ Len(posts) >= 3
    /\ \A i \in 1..3 : SubmitFailed(posts[i].resp)
    => /\ Len(posts) = 3
       /\ Returned(VOk(Failed(C9_ErrorText(posts[3].resp))))
       /\ Gets = <<>>

C9_Witness ==
    LET posts == Posts IN
    /\ Len(posts) = 3
    /\ posts[1].resp.kind = "transport_error"
    /\ posts[2].resp.kind = "bad_body"
    /\ posts[3].resp = Response("json", "0", "Invalid API Key")
    /\ Returned(VOk(Failed(
           "Etherscan verification submission failed: Invalid API Key")))
    /\ Gets = <<>>

\* C10: a submission that returns a job identifier is the last submission
\* of the call, whichever attempt it is, and every status request of the
\* call carries that identifier.
C10_FirstSuccessEndsSubmission ==
    LET posts == Posts
        gets == Gets
    IN
    /\ \A i \in 1..Len(posts) : ~SubmitFailed(posts[i].resp) => i = Len(posts)
    /\ gets # <<>> =>
          /\ posts # <<>>
          /\ ~SubmitFailed(posts[Len(posts)].resp)
          /\ \A i \in 1..Len(gets) :
                gets[i].query.guid = posts[Len(posts)].resp.result

C10_Witness ==
    LET posts == Posts
        gets == Gets
    IN
    /\ Len(posts) = 2
    /\ SubmitFailed(posts[1].resp)
    /\ posts[2].resp = Response("json", "1", "guid-b")
    /\ Len(gets) = 3
    /\ \A i \in 1..3 : gets[i].query.guid = "guid-b"

\* C11: within a verify_contract call the submissions and the retry delays
\* alternate from the first log entry on: a submission comes first, there
\* are at most 3 of them, and every failed submission but the third (a
\* transport failure, an unparsable body, or a status flag other than "1")
\* is followed by exactly one 10 s sleep and then the next submission; a 10 s
\* sleep occurs nowhere else, and nothing follows a failed third submission.
C11_SubmitRetriedWithDelay ==
    LET posts == Posts IN
    /\ Len(posts) <= 3
    /\ log # <<>> => IsPost(log[1])
    /\ \A i \in 1..Len(log) :
          /\ log[i] = Sleep(10) =>
                /\ i > 1
                /\ IsPost(log[i - 1])
                /\ SubmitFailed(log[i - 1].resp)
                /\ IF i = Len(log) THEN vc.pc = "submit" /\ vret = None
                   ELSE IsPost(log[i + 1])
          /\ IsPost(log[i]) /\ SubmitFailed(log[i].resp) =>
                IF i < 5
                THEN IF i = Len(log) THEN vc.pc = "retry_sleep" /\ vret = None
                     ELSE log[i + 1] = Sleep(10)
                ELSE i = Len(log) /\ IsSome(vret)
          /\ IsPost(log[i]) /\ i > 1 => log[i - 1] = Sleep(10)

C11_Witness ==
    /\ Len(log) = 5
    /\ log[1].resp.kind = "transport_error"
    /\ log[2] = Sleep(10)
    /\ log[3].resp = Response("json", "0", "Invalid API Key")
    /\ log[4] = Sleep(10)
    /\ IsPost(log[5])
    /\ log[5].resp = Response("json", "1", "guid-a")
    /\ vc.pc = "poll_sleep"

\* C12: without an API key (none given, or an empty one) verify_contract
\* goes no further than its entry: it has read no file, made no request and
\* slept for no delay, and what it returns is Skipped.
C12_NoKeyIsNoOp ==
    verify.etherscan_api_key \in {None, Some("")} =>
        /\ reads = <<>>
        /\ log = <<>>
        /\ vc.pc \in {"idle", "entry"}
        /\ IsSome(vret) => vret = Some(VOk(Skipped))

C12_Witness ==
    /\ verify.etherscan_api_key = Some("")
    /\ world = "no_metadata"
    /\ At = "verify_verifier"
    /\ Returned(VOk(Skipped))
    /\ reads = <<>>
    /\ log = <<>>

\* A deploy_from_artifact call has returned an error that its caller has not
\* yet taken.
DeployFailed == IsSome(ret) /\ ~Unwrap(ret).ok

\* The run has done none of the steps that follow the deployment it is at:
\* no verification of that contract is in progress or recorded, no
\* updateConstraint transaction was sent, no receipt was written.
NothingAfterDeploy ==
    /\ vc.pc = "idle" /\ vret = None /\ log = <<>> /\ reads = <<>>
    /\ run.verifier_verification = None
    /\ At = "deploy_cd" => run.cd_verification = None
    /\ run.update_tx = None
    /\ \A i \in 1..Len(chain) : chain[i].kind # "updateConstraint"
    /\ receipts = <<>>

\* C13: an error of deploy_from_artifact is passed up unchanged, call by
\* call, without any transaction, request or file in between, and ends the
\* run in error with that error; a run that ended in error at a deployment
\* takes no further step, and has done none of the steps that follow the
\* deployment.
C13_DeployErrorsAreFatal ==
    /\ [](DeployFailed \/ (exit.status = "error" /\ At \in DeploySteps)
          => NothingAfterDeploy)
    /\ [][/\ DeployFailed =>
                /\ UNCHANGED <<chain, receipts, verifyVars>>
                /\ IF stack = <<>>
                   THEN exit' = ExitError(Unwrap(ret).err)
                   ELSE ret' = ret /\ Len(stack') = Len(stack) - 1
          /\ ~(exit.status = "error" /\ At \in DeploySteps)]_vars

C13_Witness ==
    /\ cmd = "new-compliance-definition"
    /\ world = "missing_lib"
    /\ At = "deploy_verifier"
    /\ exit = ExitError("failed to read artifact")
    /\ IsSome(run.cd_verification)
    /\ NothingAfterDeploy

\* The artifacts of the libraries an artifact file references, in order.
LibraryArtifacts(path) ==
    LET file == WorldNamed(world).files[path]
        libs == IF IsSome(file.linkReferences)
                THEN LibsOf(Unwrap(file.linkReferences), 1) ELSE <<>>
    IN  [k \in 1..Len(libs) |->
            [artifact |-> lib_artifact_path(Unwrap(artifact_dir_of(path)),
                                            libs[k].sol_file, libs[k].lib_name),
             placeholder |-> library_placeholder(
                 PathStr(libs[k].sol_file) \o ":" \o libs[k].lib_name)]]

\* C14: every creation transaction on the chain comes after a confirmed
\* creation transaction, sent under the same top-level call, for each
\* library its artifact references; the creation code carries that
\* library's address wherever the artifact's bytecode has the library's
\* placeholder; and the two contracts have different addresses.
C14_DependenciesFirst ==
    \A j \in 1..Len(chain) :
        chain[j].kind = "create" =>
            LET libs == LibraryArtifacts(chain[j].artifact)
                object == StripPrefix0x(
                    Unwrap(WorldNamed(world).files[chain[j].artifact].object))
            IN  \A k \in 1..Len(libs) :
                    \E i \in 1..(j - 1) :
                        /\ chain[i].kind = "create"
                        /\ chain[i].artifact = libs[k].artifact
                        /\ chain[i].root = chain[j].root
                        /\ chain[i].status = "confirmed"
                        /\ ContractAddress(i) # ContractAddress(j)
                        /\ \A n \in 1..Len(object) :
                              object[n] = libs[k].placeholder =>
                                  chain[j].data[n] =
                                      [bytes |-> AddrHex(ContractAddress(i))]

C14_Witness ==
    /\ cmd = "publish"
    /\ world = "chain"
    /\ Len(chain) = 3
    /\ chain[1].artifact = LibArtifact("B.sol", "LibB")
    /\ chain[2].artifact = LibArtifact("A.sol", "LibA")
    /\ chain[2].data = <<[bytes |-> "6080"], [bytes |-> AddrHex(1)]>>
    /\ chain[3].artifact = HonkVerifierArtifact
    /\ chain[3].data = <<[bytes |-> AddrHex(2)], [bytes |-> "f3"]>>
    /\ chain[3].status = "confirmed"

\* The fully-qualified library names of the model's artifacts, and their
\* placeholders.
LibraryNames ==
    {"src/Verifier.sol:ZKTranscriptLib", "src/A.sol:LibA", "src/B.sol:LibB"}

Placeholders == {library_placeholder(n) : n \in LibraryNames}

\* The placeholders that occur in a bytecode string.
PlaceholdersIn(text) == {text[i] : i \in 1..Len(text)} \cap Placeholders

\* The call f has linked all its libraries and is about to decode.
Linked(f) == f.pc = "link" /\ f.todo = <<>>

\* The bytecode.object of the artifact the call f deploys.
ObjectOf(f) == Unwrap(WorldNamed(world).files[f.artifact_path].object)

\* C15 as stated: whenever a call whose artifact's bytecode has placeholders
\* has finished linking, the string it hands to hex decoding has no
\* placeholder left and decodes.
C15_LinkedBytecodeDecodes ==
    \A d \in 1..Len(stack) :
        Linked(stack[d]) /\ PlaceholdersIn(ObjectOf(stack[d])) # {} =>
            LET raw == StripPrefix0x(stack[d].bytecode_hex) IN
            /\ PlaceholdersIn(raw) = {}
            /\ IsSome(HexDecode(raw))

\* Every placeholder of the artifact's bytecode is that of a library its
\* linkReferences list.
AllListed(f) ==
    LET libs == LibraryArtifacts(f.artifact_path) IN
    PlaceholdersIn(ObjectOf(f)) \subseteq
        {libs[k].placeholder : k \in 1..Len(libs)}

\* Apart from its placeholders (40 characters each) and a leading 0x, the
\* artifact's bytecode is an even number of hex digits.
HexApart(f) ==
    LET rest == SelectSeq(StripPrefix0x(ObjectOf(f)),
                          LAMBDA t : t \notin Placeholders)
    IN  /\ \A i \in 1..Len(rest) : IsHexText(rest[i])
        /\ TextLen(rest) % 2 = 0

\* C15, amended: when the linkReferences list the library of every
\* placeholder in the bytecode, no placeholder is left after linking; and
\* when the rest of the bytecode is an even number of hex digits as well,
\* the linked string decodes.
C15_ListedPlaceholdersResolved ==
    \A d \in 1..Len(stack) :
        /\ Linked(stack[d])
        /\ PlaceholdersIn(ObjectOf(stack[d])) # {}
        /\ AllListed(stack[d])
        => LET raw == StripPrefix0x(stack[d].bytecode_hex) IN
           /\ PlaceholdersIn(raw) = {}
           /\ HexApart(stack[d]) => IsSome(HexDecode(raw))

C15_Witness ==
    /\ cmd = "publish"
    /\ world = "diamond"
    /\ Len(stack) = 1
    /\ Linked(Top)
    /\ PlaceholdersIn(ObjectOf(Top)) = {PhA, PhB}
    /\ Top.bytecode_hex = <<"0x", AddrHex(2), "6080", AddrHex(3)>>
    /\ IsSome(HexDecode(StripPrefix0x(Top.bytecode_hex)))

\* The artifact file of a path does not exist.
Missing(path) == path \notin DOMAIN WorldNamed(world).files

\* The libraries of the call f that its loop has gone past.
LibrariesPassed(f) ==
    LET libs == LibraryArtifacts(f.artifact_path) IN
    {libs[k].artifact : k \in 1..(Len(libs) - Len(f.todo))}

\* C16: a call for an artifact file that does not exist returns an error at
\* once, and the call that made it for a library returns that error in turn;
\* no call goes past a library whose artifact file is missing, and no
\* contract that references such a library is ever broadcast.
C16_MissingLibraryFails ==
    /\ [](/\ \A d \in 1..Len(stack) :
                stack[d].pc # "read" =>
                    \A lib \in LibrariesPassed(stack[d]) : ~Missing(lib)
          /\ \A j \in 1..Len(chain) :
                chain[j].kind = "create" =>
                    LET libs == LibraryArtifacts(chain[j].artifact) IN
                    \A k \in 1..Len(libs) : ~Missing(libs[k].artifact))
    /\ [][/\ stack # <<>> /\ Top.pc = "read" /\ Missing(Top.artifact_path) =>
                /\ ret' = Some(DeployErr("failed to read artifact"))
                /\ stack' = SubSeq(stack, 1, Len(stack) - 1)
                /\ chain' = chain
          /\ stack # <<>> /\ Top.pc = "await" /\ DeployFailed =>
                /\ ret' = ret
                /\ stack' = SubSeq(stack, 1, Len(stack) - 1)
                /\ chain' = chain]_vars

C16_Witness ==
    /\ cmd = "publish"
    /\ world = "missing_lib"
    /\ Missing(LibArtifact("A.sol", "LibA"))
    /\ stack = <<>>
    /\ ret = Some(DeployErr("failed to read artifact"))
    /\ At = "deploy_verifier"
    /\ chain = <<>>

\* The DeployOutputs the state holds: the one just returned and those the
\* run has kept.
DeployOutputs ==
    {Unwrap(o) : o \in {r \in {ret, run.cd_result, run.verifier_result} :
                            IsSome(r) /\ Unwrap(r).ok}}

\* C17: every DeployOutput is that of a creation transaction whose receipt
\* carried a contract address: it holds that address and that
\* transaction's hash; and the call that gets a receipt without a contract
\* address returns an error.
C17_OutputOnlyWithAddress ==
    /\ [](\A out \in DeployOutputs :
              \E n \in 1..Len(chain) :
                  /\ chain[n].kind = "create"
                  /\ chain[n].status = "confirmed"
                  /\ out.deployed_to = ContractAddress(n)
                  /\ out.transaction_hash = TxHash(n))
    /\ [][stack # <<>> /\ Top.pc = "receipt"
             /\ chain'[Top.tx].status = "reverted"
          => ret' = Some(DeployErr("no contract address in deployment receipt"))]_vars

C17_Witness ==
    /\ cmd = "publish"
    /\ world = "one_lib"
    /\ Len(chain) = 2
    /\ chain[1].status = "confirmed"
    /\ chain[2].status = "reverted"
    /\ chain[2].artifact = HonkVerifierArtifact
    /\ stack = <<>>
    /\ ret = Some(DeployErr("no contract address in deployment receipt"))
    /\ DeployOutputs = {}

\* The artifact of the call f is a readable document with a bytecode.object
\* and without library references: linkReferences absent, empty, or without
\* an entry that names libraries.
NoLibraries(f) ==
    /\ ~Missing(f.artifact_path)
    /\ IsSome(WorldNamed(world).files[f.artifact_path].object)
    /\ LibraryArtifacts(f.artifact_path) = <<>>

\* C18: a call for an artifact without library references is always the
\* innermost call (it makes no nested call), holds the artifact's bytecode
\* string as it was read up to the decoding, and sends one transaction: its
\* step from linking to awaiting the receipt adds one creation transaction
\* with that bytecode, decoded, and no other step of it adds any.
C18_NoLibrariesOneTransaction ==
    /\ [](\A d \in 1..Len(stack) :
              NoLibraries(stack[d]) /\ stack[d].pc # "read" =>
                  /\ d = Len(stack)
                  /\ stack[d].todo = <<>>
                  /\ stack[d].bytecode_hex = ObjectOf(stack[d])
                  /\ stack[d].pc \in {"link", "receipt"}
                  /\ stack[d].pc = "link" => stack[d].tx = 0
                  /\ stack[d].pc = "receipt" =>
                        /\ stack[d].tx = Len(chain)
                        /\ chain[Len(chain)].artifact = stack[d].artifact_path
                        /\ chain[Len(chain)].data =
                               DeployCode(
                                   Unwrap(HexDecode(StripPrefix0x(ObjectOf(stack[d])))),
                                   stack[d].constructor_args))
    /\ [][stack # <<>> /\ NoLibraries(Top) =>
             /\ Len(stack') <= Len(stack)
             /\ IF Top.pc = "link" /\ Len(stack') = Len(stack)
                THEN Len(chain') = Len(chain) + 1
                ELSE Len(chain') = Len(chain)]_vars

C18_Witness ==
    /\ cmd = "new-compliance-definition"
    /\ At = "deploy_cd"
    /\ stack = <<>>
    /\ ret = Some(DeployOk(ContractAddress(1), TxHash(1)))
    /\ Len(chain) = 1
    /\ chain[1].artifact = ComplianceDefinitionArtifact
    /\ chain[1].data = <<[bytes |-> "6080"], [bytes |-> "f3"]>> \o RegulatorArgs
    /\ chain[1].status = "confirmed"

\* The run p has copied its Verifier.sol and not yet removed it.
NeedsVerifier(p) ==
    /\ procs[p].exit.status = "running"
    /\ VerifierSteps[procs[p].step] \in
           {"forge_build", "deploy_verifier", "verify_verifier", "remove_verifier"}

\* C19: runs that work in the same contract directory at the same time do
\* not interfere: while a run needs the Verifier.sol it copied, the file
\* holds that run's copy; the verifier that forge build compiled for a run,
\* the one the run deployed and the one it submitted for verification are
\* its own; and no run fails for a file that is not there.
C19_RunsDoNotInterfere ==
    \A p \in Runs :
        /\ NeedsVerifier(p) => shared.src = p
        /\ procs[p].built \in {None, Some(p)}
        /\ procs[p].deployed \in {None, Some(p)}
        /\ procs[p].verified \in {None, Some(p)}
        /\ procs[p].exit.err \notin
               {"failed to read artifact",
                "failed to build standard JSON input for verification: "
                \o "failed to read source",
                "failed to build standard JSON input for verification: "
                \o "failed to read artifact"}

LowerHexDigits ==
    {"0", "1", "2", "3", "4", "5", "6", "7", "8", "9",
     "a", "b", "c", "d", "e", "f"}

\* A string of 40 characters: "__$", 34 lowercase hex digits, "$__".
IsPlaceholderText(t) ==
    /\ Len(t) = 40
    /\ SubSeq(t, 1, 3) = "__$"
    /\ SubSeq(t, 38, 40) = "$__"
    /\ \A i \in 4..37 : SubSeq(t, i, i) \in LowerHexDigits

\* The fully-qualified name of the library a call is about to deploy or has
\* just deployed: the head of its remaining link references.
NextLibraryName(f) ==
    PathStr(Head(f.todo).sol_file) \o ":" \o Head(f.todo).lib_name

DecodedBytecode(f) == Unwrap(HexDecode(StripPrefix0x(f.bytecode_hex)))

\* C21: the data of the creation transaction a call has broadcast is the
\* decoding of its linked bytecode string followed by the bytes of its
\* constructor arguments, and is that decoding alone when the call has no
\* constructor arguments.
C21_PayloadIsBytecodeThenArgs ==
    \A d \in 1..Len(stack) :
        stack[d].pc = "receipt" =>
            LET f == stack[d]
                data == chain[f.tx].data
                n == Len(DecodedBytecode(f))
            IN  /\ SubSeq(data, 1, n) = DecodedBytecode(f)
                /\ IF IsSome(f.constructor_args)
                   THEN SubSeq(data, n + 1, Len(data)) = Unwrap(f.constructor_args)
                   ELSE Len(data) = n

C21_Witness ==
    /\ cmd = "new-compliance-definition"
    /\ Len(stack) = 1
    /\ Top.pc = "receipt"
    /\ Top.constructor_args = Some(RegulatorArgs)
    /\ Top.bytecode_hex = <<"0x", "6080", "f3">>
    /\ chain[Top.tx].data =
           <<[bytes |-> "6080"], [bytes |-> "f3"], [bytes |-> "abi(regulator)"]>>

\* The settings object of the metadata of the artifact being verified; the
\* empty object when the metadata has none.
MetaSettings ==
    LET settings == WorldNamed(world).files[vc.artifact_path].metadata.settings
    IN  IF IsSome(settings) THEN Unwrap(settings) ELSE <<>>

\* C22: once verify_contract has built its standard input document, the
\* document's settings have the keys of the metadata settings without
\* compilationTarget and with outputSelection; outputSelection is the fixed
\* selection of abi, evm.bytecode and evm.deployedBytecode for all
\* contracts, whatever the metadata carried; every other key has the
\* metadata's value.
C22_OutputSelectionForced ==
    vc.pc \notin {"idle", "entry"} =>
        LET settings == vc.standard_json.settings IN
        /\ DOMAIN settings =
               (DOMAIN MetaSettings \ {"compilationTarget"}) \cup {"outputSelection"}
        /\ settings["outputSelection"] = OutputSelectionAll
        /\ \A k \in DOMAIN MetaSettings \ {"compilationTarget", "outputSelection"} :
              settings[k] = MetaSettings[k]

\* The artifact a call of build_standard_json_input has read: the first file
\* it opened.
BuiltFrom == WorldNamed(world).files[reads[1]]

\* The source paths the metadata of that artifact names.
NamedSources ==
    LET keys == Unwrap(BuiltFrom.metadata.sources) IN
    {keys[i] : i \in 1..Len(keys)}

\* A source file that is not under the Foundry project.
Unreadable(path) ==
    /\ path \notin WorldNamed(world).sources
    /\ ~(path = SrcVerifier /\ verifier_sol)

\* verify_contract has returned the error of build_standard_json_input,
\* without any request.
BuildFailed ==
    /\ vc.pc = "idle"
    /\ IsSome(vret)
    /\ ~Unwrap(vret).ok
    /\ log = <<>>

\* C23: when build_standard_json_input has read an artifact without
\* embedded metadata it has failed with "no metadata found in artifact";
\* when the metadata names a source file that cannot be read it has failed;
\* and when it has succeeded, the document the call goes on with has as
\* sources the paths the metadata names, no more and no fewer, each read
\* under the project root.
C23_BuildFailsOrHasAllSources ==
    reads # <<>> /\ reads[1] \in DOMAIN WorldNamed(world).files /\ BuiltFrom.json =>
        /\ BuiltFrom.metadata.form = "absent" =>
              /\ BuildFailed
              /\ Unwrap(vret).err =
                     "failed to build standard JSON input for verification: "
                     \o "no metadata found in artifact"
        /\ IsSome(BuiltFrom.metadata.sources)
              /\ (\E q \in NamedSources : Unreadable(q))
              => BuildFailed
        /\ vc.pc # "idle" =>
              /\ DOMAIN vc.standard_json.sources = NamedSources
              /\ \A q \in NamedSources :
                    \E i \in 2..Len(reads) : reads[i] = contract_dir \o q

C23_Witness ==
    /\ world = "missing_source"
    /\ cmd = "publish"
    /\ reads = <<HonkVerifierArtifact, contract_dir \o SrcA>>
    /\ Unreadable(SrcA)
    /\ vret = Some(VErr("failed to build standard JSON input for verification: "
                        \o "failed to read source"))
    /\ BuildFailed

\* Version strings, as character sequences: empty, without the marker, with
\* it, the marker alone, and with a capital V.
SampleVersions ==
    {<<>>, VersionPlain, VersionMarked, <<"v">>, <<"V", "0", ".", "8">>}

\* The result r is the version v with a leading 'v': v itself when it has
\* one, else v behind one 'v'.
Normalised(v, r) ==
    /\ r # <<>> /\ Head(r) = "v"
    /\ IF v # <<>> /\ Head(v) = "v" THEN r = v ELSE r = <<"v">> \o v

\* C24: the compiler version a verify_contract call has got from
\* build_standard_json_input is the metadata's version with a leading 'v',
\* prepended once when it was missing; normalising the result again changes
\* nothing. The same holds for the sample versions.
C24_VersionHasMarker ==
    /\ vc.pc \notin {"idle", "entry"} =>
          LET version == Unwrap(WorldNamed(world).files[vc.artifact_path]
                                .metadata.version)
          IN  /\ Normalised(version, vc.compiler_version)
              /\ CompilerVersion(vc.compiler_version) = vc.compiler_version
    /\ \A v \in SampleVersions :
          /\ Normalised(v, CompilerVersion(v))
          /\ CompilerVersion(CompilerVersion(v)) = CompilerVersion(v)

C24_Witness ==
    /\ world = "one_lib"
    /\ vc.pc = "submit"
    /\ vc.artifact_path = HonkVerifierArtifact
    /\ WorldNamed(world).files[vc.artifact_path].metadata.version
           = Some(<<"0", ".", "8">>)
    /\ vc.compiler_version = <<"v", "0", ".", "8">>

\* The runs that wrote their receipt and ended well.
Succeeded == {p \in Runs : writers[p].exit.status = "ok"}

\* C25: the receipts directory holds one file per successful run, and each
\* successful run's receipt is still the content of the file it wrote.
C25_OneReceiptPerRun ==
    /\ Cardinality(DOMAIN receipts) = Cardinality(Succeeded)
    /\ \A p \in Succeeded :
          /\ Unwrap(writers[p].path) \in DOMAIN receipts
          /\ receipts[Unwrap(writers[p].path)] = ReceiptOf(p)

\* The check of init's path found something there.
RejectedExisting ==
    /\ AtInit("exists")
    /\ Exists(init.name)
    /\ init' # init

\* C26: the step of init that finds its path existing ends the run with
\* 'directory already exists' and changes no file; an init of a name that an
\* init has succeeded for never gets past that check, and the project of
\* such a name stays as the successful init left it.
C26_InitRejectsExisting ==
    /\ [][RejectedExisting =>
             /\ init'.exit = ExitError("directory already exists: " \o init.name)
             /\ fs' = fs]_vars
    /\ [](init.again =>
             /\ init.pc = "exists"
             /\ init.exit \in {[status |-> "running", err |-> ""],
                               ExitError("directory already exists: " \o init.name)})
    /\ [](\A name \in inited : fs[name] = Project(name))

C26_Witness ==
    /\ init.again
    /\ init.name = "my_circuit"
    /\ init.exit = ExitError("directory already exists: my_circuit")
    /\ fs["my_circuit"].nargo_toml
           = Some(<<"[package] name = \"", "my_circuit",
                    "\" type = \"bin\" authors = [\"\"] [dependencies]">>)
    /\ fs["my_circuit"].main_nr = Some(MAIN_NR_TEMPLATE)

\* Nothing but the path has been looked at: no statement after the two
\* checks has run, and there is no Verifier.sol copy, no CID, no
\* transaction, no request to the explorer and no receipt.
OnlyValidated ==
    /\ step <= 2
    /\ ~verifier_sol
    /\ run.cid = None
    /\ chain = <<>>
    /\ stack = <<>>
    /\ log = <<>>
    /\ receipts = <<>>

\* C27: a publish given a path that is not a directory never gets past its
\* first check and ends with 'not a directory' only; one given a directory
\* without Nargo.toml never gets past the second and ends with 'no
\* Nargo.toml found' only; in both nothing but the path has been looked at.
C27_PathValidatedFirst ==
    cmd = "publish" =>
        /\ project = "not_a_directory" =>
              /\ OnlyValidated
              /\ step = 1
              /\ exit \in {[status |-> "running", err |-> ""],
                           ExitError("not a directory")}
        /\ project = "no_nargo_toml" =>
              /\ OnlyValidated
              /\ exit \in {[status |-> "running", err |-> ""],
                           ExitError("no Nargo.toml found")}

C27_Witness ==
    /\ cmd = "publish"
    /\ project = "no_nargo_toml"
    /\ step = 2
    /\ At = "nargo_toml"
    /\ exit = ExitError("no Nargo.toml found")
    /\ chain = <<>>
    /\ receipts = <<>>

\* The position of a statement in the command's run.
StepOf(label) ==
    CHOOSE i \in 1..Len(Steps(cmd)) : Steps(cmd)[i] = label

\* C28: a publish of a Noir project whose circuit source is invalid that has
\* found the source file and has ended, has ended with the 'nargo compile
\* failed' error.
C28_InvalidCircuitFailsAtCompile ==
    /\ cmd = "publish"
    /\ project = "invalid_circuit"
    /\ exit.status # "running"
    /\ step >= StepOf("nargo_check")
    => exit = ExitError("nargo compile failed")

\* C29: a new-compliance-definition run on a Noir project whose circuit is
\* invalid broadcasts no transaction, and when it ends at or after its
\* circuit validation it ends with 'circuit validation failed'.
C29_InvalidCircuitRejectedBeforeDeploy ==
    cmd = "new-compliance-definition" /\ project = "invalid_circuit" =>
        /\ chain = <<>>
        /\ exit.status # "running" /\ step >= StepOf("nargo_check") =>
              exit = ExitError("circuit validation failed")

\* C30: a run that has ended after its copy of Verifier.sol has left no
\* <contract_dir>/src/Verifier.sol.
C30_VerifierSolRemovedOnExit ==
    exit.status # "running" /\ step > StepOf("copy_verifier") => ~verifier_sol

\* The verify_contract call in progress is the one for the verifier.
VerifyingVerifier ==
    /\ vc.pc # "idle"
    /\ vc.artifact_path = HonkVerifierArtifact

\* C31: Verifier.sol is in the Foundry project as long as the verify_contract
\* call for the verifier is in progress, the building of its standard JSON
\* input included; the step that removes the file is taken only when that
\* call has returned, with its outcome or error kept by the run.
C31_RemovedAfterVerification ==
    /\ [](VerifyingVerifier => verifier_sol)
    /\ [][verifier_sol /\ ~verifier_sol' =>
             /\ vc.pc = "idle"
             /\ vret = None
             /\ IsSome(run.verifier_verification)]_vars

C31_Witness ==
    /\ cmd = "publish"
    /\ world = "plain"
    /\ ~verifier_sol
    /\ At = "verification"
    /\ IsSome(run.verifier_verification)
    /\ Unwrap(run.verifier_verification) = VOk(Verified)

\* The updateConstraint transactions broadcast so far.
Updates == {i \in 1..Len(chain) : chain[i].kind = "updateConstraint"}

\* Transaction n is the confirmed creation of the contract the run deployed
\* from the artifact at path, and n precedes transaction i.
DeployedBefore(n, path, i) ==
    /\ n < i
    /\ chain[n].kind = "create"
    /\ chain[n].root = path
    /\ chain[n].artifact = path
    /\ chain[n].status = "confirmed"

\* C32: a run broadcasts at most one updateConstraint; when it has, the
\* verifier's creation was confirmed before it and its address is the
\* newVerifier argument, the verifier's verification has returned an outcome,
\* the metadata argument is the CID of the run's IPFS upload, and in
\* new-compliance-definition the target is the address of the
\* ComplianceDefinition whose creation was confirmed before it.
C32_UpdateOnceAfterDeployAndVerify ==
    /\ Cardinality(Updates) <= 1
    /\ \A i \in Updates :
          /\ \E n \in 1..Len(chain) :
                /\ DeployedBefore(n, HonkVerifierArtifact, i)
                /\ chain[i].data.newVerifier = ContractAddress(n)
          /\ IsSome(run.verifier_verification)
          /\ Unwrap(run.verifier_verification).ok
          /\ run.cid \in {Some(cid) : cid \in Cids}
          /\ chain[i].data.metadataHash = Unwrap(run.cid)
          /\ cmd = "new-compliance-definition" =>
                \E m \in 1..Len(chain) :
                    /\ DeployedBefore(m, ComplianceDefinitionArtifact, i)
                    /\ chain[i].data.to = ContractAddress(m)

C32_Witness ==
    /\ cmd = "new-compliance-definition"
    /\ world = "plain"
    /\ Len(chain) = 3
    /\ chain[3].kind = "updateConstraint"
    /\ chain[3].status = "confirmed"
    /\ chain[3].data = [to |-> 1, newVerifier |-> 2, metadataHash |-> "QmCircuit"]
    /\ Unwrap(run.verifier_verification) = VOk(Skipped)

\* The receipt r records what the run obtained: the verifier's address and
\* creation hash, the update's hash, the CID, the verification outcomes and,
\* in new-compliance-definition, the ComplianceDefinition's address.
RecordsRun(r) ==
    /\ r.command = cmd
    /\ \E n \in 1..Len(chain), i \in Updates :
          /\ DeployedBefore(n, HonkVerifierArtifact, i)
          /\ r.verifier_address = ContractAddress(n)
          /\ r.verifier_tx = TxHash(n)
          /\ chain[i].status = "confirmed"
          /\ r.update_tx = TxHash(i)
          /\ chain[i].data.newVerifier = r.verifier_address
          /\ chain[i].data.metadataHash = r.cid
    /\ r.verifier_verification
           = Display(Unwrap(run.verifier_verification).outcome)
    /\ cmd = "new-compliance-definition" =>
          /\ \E m \in 1..Len(chain) :
                /\ DeployedBefore(m, ComplianceDefinitionArtifact, Len(chain))
                /\ r.compliance_definition_address = ContractAddress(m)
          /\ r.compliance_definition_verification
                 = Display(Unwrap(run.cd_verification))

Unconfirmed ==
    {n \in 1..Len(chain) : chain[n].status \in {"pending", "unknown"}}

\* A creation transaction is broadcast in this step.
SendsCreation ==
    /\ Len(chain') = Len(chain) + 1
    /\ chain'[Len(chain')].kind = "create"

\* C34: at most one transaction is broadcast without its receipt at any
\* time, at any depth of deploy_from_artifact, and a creation transaction is
\* broadcast only when the receipt of every earlier one has been obtained.
C34_DeploymentsSequential ==
    /\ [](Cardinality(Unconfirmed) <= 1)
    /\ [][SendsCreation => Unconfirmed = {}]_vars

C34_Witness ==
    /\ world = "diamond"
    /\ cmd = "publish"
    /\ Len(stack) = 2
    /\ Top.pc = "receipt"
    /\ Len(chain) = 3
    /\ Unconfirmed = {3}
    /\ chain[1].status = "confirmed"
    /\ chain[2].status = "confirmed"

InvalidHex == DeployErr("invalid hex in bytecode.object of artifact")

\* The innermost call finds in this step that its bytecode string does not
\* decode.
DecodeFails ==
    /\ stack # <<>>
    /\ ret = None
    /\ ret' = Some(InvalidHex)

\* A confirmed creation of the contract of the artifact at path is on the
\* chain.
OnChain(path) ==
    \E n \in 1..Len(chain) :
        /\ chain[n].kind = "create"
        /\ chain[n].artifact = path
        /\ chain[n].status = "confirmed"

\* C35: the call that finds its bytecode undecodable has been through all
\* the libraries of its linkReferences: each is deployed and on the chain and
\* its placeholder is gone from the string; the call returns the error and
\* leaves the chain as it is, broadcasting nothing; and no step ever takes a
\* transaction off the chain or changes what it created.
C35_DecodeAfterLinking ==
    /\ [][DecodeFails =>
             LET libs == LibraryArtifacts(Top.artifact_path) IN
             /\ Top.pc = "link"
             /\ Top.todo = <<>>
             /\ ~IsSome(HexDecode(StripPrefix0x(Top.bytecode_hex)))
             /\ \A k \in 1..Len(libs) :
                   /\ OnChain(libs[k].artifact)
                   /\ \A i \in 1..Len(Top.bytecode_hex) :
                         Top.bytecode_hex[i] # libs[k].placeholder
             /\ chain' = chain
             /\ Len(stack') = Len(stack) - 1]_vars
    /\ [][/\ Len(chain') >= Len(chain)
          /\ \A n \in 1..Len(chain) :
                /\ chain'[n].kind = chain[n].kind
                /\ chain'[n].artifact = chain[n].artifact
                /\ chain'[n].data = chain[n].data
                /\ chain[n].status = "confirmed" =>
                      chain'[n].status = "confirmed"]_vars

C35_Witness ==
    /\ world = "bad_hex"
    /\ cmd = "publish"
    /\ stack = <<>>
    /\ ret = Some(InvalidHex)
    /\ Len(chain) = 1
    /\ chain[1].artifact = LibArtifact("A.sol", "LibA")
    /\ chain[1].status = "confirmed"

\* The submission e got a job identifier.
Accepted(e) == submit_verification(e.resp).ok

\* C36: a verify_contract call that has started returns; it makes at most
\* SUBMIT_RETRIES submissions and at most MAX_POLL_ATTEMPTS status requests,
\* and every status request comes after a submission of the same call that
\* got a job identifier.
C36_VerifyTerminates ==
    /\ [](LET posts == Posts
              gets == Gets
          IN  /\ Len(posts) <= SUBMIT_RETRIES
              /\ Len(gets) <= MAX_POLL_ATTEMPTS
              /\ \A i \in 1..Len(log) :
                    IsGet(log[i]) =>
                        \E j \in 1..(i - 1) : IsPost(log[j]) /\ Accepted(log[j]))
    /\ (vc.pc # "idle") ~> (vc.pc = "idle")

C36_Witness ==
    /\ cmd = "publish"
    /\ vc.pc = "idle"
    /\ vret = Some(VOk(TimedOut))
    /\ Len(Posts) = SUBMIT_RETRIES
    /\ Len(Gets) = MAX_POLL_ATTEMPTS
    /\ Accepted(Posts[SUBMIT_RETRIES])

IsIntervalSleep(e) == e = Sleep(POLL_INTERVAL)

IntervalSleeps == SelectSeq(log, IsIntervalSleep)

\* C37: in the log of a verify_contract call every status request comes
\* right after an interval sleep, and that sleep right after something that
\* is not an interval sleep; the interval sleeps are as many as the status
\* requests or, while one has ended and its request is not yet made, one
\* more; and when the call has returned they are as many, and the last thing
\* it did, if it polled at all, was a status request.
C37_OneSleepPerStatusRequest ==
    LET sleeps == Len(IntervalSleeps)
        gets == Len(Gets)
    IN  /\ \A i \in 1..Len(log) :
              IsGet(log[i]) =>
                  /\ i > 2
                  /\ IsIntervalSleep(log[i - 1])
                  /\ ~IsIntervalSleep(log[i - 2])
        /\ sleeps = IF vc.pc = "poll" THEN gets + 1 ELSE gets
        /\ vc.pc = "idle" /\ gets > 0 => IsGet(log[Len(log)])

C37_Witness ==
    /\ vc.pc = "idle"
    /\ vret = Some(VOk(Verified))
    /\ Len(log) = 5
    /\ IsPost(log[1])
    /\ log[2] = Sleep(POLL_INTERVAL)
    /\ IsGet(log[3]) /\ IsStatus(log[3].resp, "Pending in queue")
    /\ log[4] = Sleep(POLL_INTERVAL)
    /\ IsGet(log[5]) /\ IsStatus(log[5].resp, "Pass - Verified")

\* No API key: none given, or the empty string.
NoKey == verify.etherscan_api_key \in {None, Some("")}

\* No verifier URL: none given, or the empty string.
NoUrl == verify.verifier_url \in {None, Some("")}

\* C38: what verify_contract returns, and what the run keeps of it, is
\* Skipped exactly when there is no API key or an empty one; with a key, the
\* call's requests go to the default endpoint when there is no verifier URL
\* or an empty one, and to the verifier URL otherwise.
C38_SkippedIffNoKey ==
    /\ IsSome(vret) => (vret = Some(VOk(Skipped)) <=> NoKey)
    /\ IsSome(run.verifier_verification) =>
          (run.verifier_verification = Some(VOk(Skipped)) <=> NoKey)
    /\ IsSome(run.cd_verification) =>
          (run.cd_verification = Some(Skipped) <=> NoKey)
    /\ \A i \in 1..Len(log) :
          IsPost(log[i]) \/ IsGet(log[i]) =>
              /\ ~NoKey
              /\ log[i].url = IF NoUrl THEN ETHERSCAN_V2_API
                              ELSE Unwrap(verify.verifier_url)

C38_Witness ==
    /\ verify = [etherscan_api_key |-> Some("KEY"), verifier_url |-> Some("")]
    /\ vc.pc = "idle"
    /\ vret = Some(VOk(AlreadyVerified))
    /\ IsPost(log[1])
    /\ log[1].url = ETHERSCAN_V2_API
    /\ IsGet(log[Len(log)])
    /\ log[Len(log)].url = ETHERSCAN_V2_API

====
